---- MODULE Spec2Model ----
(***************************************************************************)
(* Verification model of the CGM serial biosensor monitor                  *)
(* (GlowingDrawer/CGM_Python).                                             *)
(*                                                                         *)
(*   - the binary frame decoder  (DataDecoders.BinaryFrameDecoder.feed and *)
(*     SerialPage.process_binary_buffer, which share one loop),            *)
(*   - the two JSON object decoders (DataDecoders.JsonFrameDecoder.feed    *)
(*     and SerialPage.process_json_buffer),                                *)
(*   - the ingestion queue of the data monitoring page,                    *)
(*   - the connection life cycle of the serial page and its worker.        *)
(*                                                                         *)
(* Bytes are naturals 0..255, text is a sequence of one-character strings, *)
(* floating point values are kept as exact fractions [num, den].           *)
(***************************************************************************)
EXTENDS Integers, Sequences, FiniteSets, TLC

VARIABLES
    \* ---- binary decoder -------------------------------------------------
    binImpl,        \* which of the two copies of the loop runs
    binCase,        \* description of the input stream (fixed by Init)
    binRest,        \* bytes of the stream the worker has not delivered yet
    buffer,         \* BinaryFrameDecoder.buffer / SerialPage.binary_buffer
    binPc,          \* "idle" | "loop": position inside feed
    binEmitted,     \* frames handed to on_frame_decoded / data_received
    \* ---- JSON decoders ---------------------------------------------------
    jsonImpl,       \* "JsonFrameDecoder" | "SerialPage"
    jsonCase,       \* description of the input stream (fixed by Init)
    jsonRest,       \* bytes of the stream not delivered yet
    jsonFeeds,      \* number of chunks delivered so far
    json_buffer,    \* JsonFrameDecoder.buffer / SerialPage.json_buffer (text)
    jsonEmitted,    \* objects handed to on_frame_decoded / data_received
    \* ---- data monitoring page: ingestion ---------------------------------
    received,           \* number of update_data calls so far
    userOps,            \* number of operator actions so far
    timePat,            \* which timestamp pattern the device sends
    pending_data,       \* DataMonitorPage._pending_data
    data_table,         \* rows of DataMonitorPage.data_table
    max_table_rows,     \* cfg.ui.max_table_rows
    auto_save,          \* cfg.save.auto_save
    cached_data,        \* DataMonitorPage.cached_data
    glucose_time_data,  \* chart buffer pruned by time
    voltage_glucose_data, \* chart buffer pruned by count (the uric and
                        \* ascorbic buffers are handled by the same statements)
    chart_index,        \* chart_stack.currentIndex(): 0 or 3
    time_glucose_series, \* points drawn on chart 0
    volt_glucose_series, \* points drawn on chart 3
    ingested_rows,      \* the rows _process_single_data made since the last
                        \* clear_all_data, in the order it made them
    \* ---- serial page: connection and receive worker ----------------------
    serial_port,        \* SerialPage.serial_port: 0 is None, else a handle
    open_ports,         \* the handles whose is_open is true
    is_connected,       \* SerialPage.is_connected
    is_bluetooth,       \* SerialPage._is_bluetooth
    selected_bluetooth, \* the port selected in port_combo is a Bluetooth port
    auto_connect,       \* auto_connect.isChecked()
    worker_thread,      \* SerialPage.worker_thread / worker: 0 is None
    threads,            \* the QThreads started and not finished
    pending_async_open, \* QTimer.singleShot(0, _async_open_serial) not yet fired
    pending_start_worker, \* QTimer.singleShot(500, start_worker) not yet fired
    pending_reconnect,  \* QTimer.singleShot(3000, open_serial) not yet fired
    pending_errors,     \* error_occurred signals queued to the page
    blocked,            \* the GUI thread waits in worker_thread.wait()
    crashed,            \* the process was aborted
    status_label,       \* status_label's text: disconnected, connected,
                        \* reconnecting ("trying to reconnect automatically")
    \* ---- data monitoring page: filtering pipeline ------------------------
    filterImpl,         \* which iteration of DataMonitorPage runs
    filter_type,        \* cfg.filt.filter_type / filter_config["filter_type"]
    window_size,        \* cfg.filt.window_size / filter_config["window_size"]
    filter_buffer,      \* filter_buffers[key] of one channel
    raw_history,        \* the channel's raw values since the history was emptied
    last_output,        \* what _apply_filter returned last, and under which setting
    \* ---- data monitoring page: Kalman filter of one channel ---------------
    kalman_Q,           \* KalmanFilter.Q
    kalman_R,           \* KalmanFilter.R
    kalman_z,           \* the value the channel delivers (fixed by Init)
    kalman_x,           \* KalmanFilter.x: NoEstimate (None) or a double
    kalman_P,           \* KalmanFilter.P
    kalman_prev_P,      \* KalmanFilter.P before the last call of update
    kalman_updates,     \* calls of update since the filter was created
    \* ---- data monitoring page: saving to CSV -----------------------------
    clock,              \* datetime.now(), in seconds since the start
    files,              \* the CSV files: lines, and how often they were opened
    saved_rows,         \* the rows auto_save_data has written, in order
    failed_writes,      \* calls of _write_data_to_csv that returned False
    \* ---- configuration ---------------------------------------------------
    configImpl,         \* which AppConfig loads the document
    document,           \* the fields of app_config.json the model follows
    cfg,                \* the AppConfig in use
    config_loaded,      \* AppConfig.load has returned a configuration
    config_raised,      \* AppConfig.load has raised an exception
    timer_interval,     \* period of auto_save_timer in ms, 0 when stopped
    \* ---- CV cycles -------------------------------------------------------
    cv_data,            \* voltage_glucose_data: points [v, g] with their index k
    cv_pc,              \* _build_cv_cycles: "call", "loop" or "returned"
    cv_i,               \* index of the point the loop handles next
    cv_prev,            \* index of the point prev_v, prev_g were taken from
    current_cycle,
    current_dir,        \* 1 rising, -1 falling, 0 for None
    cycles,
    \* ---- parsing a frame --------------------------------------------------
    proto_mode,         \* the path of the session: "binary" or "json"
    field_naming,       \* how the device names the fields of its JSON objects
    device_ms,          \* the device timestamp of the last frame
    frame_values,       \* the values of the last frame, by logical field
    parsed,             \* parse_frame's result for the last frame
    prev_parsed,        \* and for the frame before it
    samples,            \* frames parsed so far
    \* ---- DPV waveform -----------------------------------------------------
    dpv_params,         \* the arguments of generate_dpv_voltage_array
    dpv_pc,             \* "call", "fill" or "returned"
    dpv_step,           \* the step the outer loop handles next
    voltage_array,
    \* ---- receive path of the serial page ----------------------------------
    rxImpl,             \* which handle_data runs
    hex_receive_check,  \* "Hex display" is ticked
    binary_mode_check,  \* "binary protocol" is ticked
    rx_json_buffer,     \* SerialPage.json_buffer
    rx_binary_buffer,   \* SerialPage.binary_buffer
    data_received,      \* the objects emitted to the Data Monitoring page
    receive_text,       \* how each chunk was shown in the receive panel
    rx_last,            \* history: the last chunk and the state it arrived in
    rx_is_connected,    \* is_connected of the page that receives
    rx_opens,           \* ports opened so far: the number of the session
    \* ---- Kalman parameters of the data monitoring page --------------------
    kpImpl,             \* which update_kalman_params runs
    kalman_Q_edit,      \* text of the Q edit
    kalman_R_edit,      \* text of the R edit
    filt_kalman_Q,      \* cfg.filt.kalman_Q / filter_config["kalman_params"]["Q"]
    filt_kalman_R,
    kalman_filters,     \* channel -> its filter's Q, R and samples seen
    kp_warnings,        \* message boxes shown
    kp_last,            \* history: the entries update_kalman_params has just handled
    \* ---- DPV potential curve -----------------------------------------------
    curve_params,       \* the arguments of generate_dpv_potential_curve
    curve_pc,           \* "call", "fill" or "returned"
    curve_i,            \* the step the loop handles next
    potential,          \* the potential array, one entry per sampling instant
    \* ---- configuration round trip ------------------------------------------
    rt_impl,            \* "config.py" or "01_ReadSerial"
    rt_cfg,             \* the AppConfig that is saved
    rt_document,        \* what save_to wrote
    rt_loaded,          \* what load returned
    rt_pc,              \* "made", "saved" or "loaded"
    \* ---- BLE console -------------------------------------------------------
    ble_client,         \* self.client: a client id, 0 for None
    ble_made,           \* BleakClient objects made so far
    ble_links,          \* the clients whose connection is established
    btn_scan_enabled,
    btn_connect_enabled,
    combo_devices_enabled,
    combo_devices,      \* the devices listed in the selector
    current_text,       \* the selector shows a device (TRUE) or nothing
    ble_scans,          \* scan_devices tasks waiting for BleakScanner.discover
    ble_tasks           \* toggle_connection tasks: where each one waits

binVars == <<binImpl, binCase, binRest, buffer, binPc, binEmitted>>
jsonVars == <<jsonImpl, jsonCase, jsonRest, jsonFeeds, json_buffer, jsonEmitted>>

ingestVars ==
    <<received, userOps, timePat, pending_data, data_table, max_table_rows, auto_save,
      cached_data, glucose_time_data, voltage_glucose_data, chart_index,
      time_glucose_series, volt_glucose_series, ingested_rows>>

pageVars ==
    <<serial_port, open_ports, is_connected, is_bluetooth, selected_bluetooth,
      auto_connect, worker_thread, threads, pending_async_open,
      pending_start_worker, pending_reconnect, pending_errors, blocked, crashed,
      status_label>>

filterVars ==
    <<filterImpl, filter_type, window_size, filter_buffer, raw_history, last_output>>

kalmanVars ==
    <<kalman_Q, kalman_R, kalman_z, kalman_x, kalman_P, kalman_prev_P, kalman_updates>>

saveVars == <<clock, files, saved_rows, failed_writes>>

configVars == <<configImpl, document, cfg, config_loaded, config_raised, timer_interval>>

MaxSamples == 3

cvVars == <<cv_data, cv_pc, cv_i, cv_prev, current_cycle, current_dir, cycles>>

\* the components added later, each with a specification of its own
coreVars ==
    <<binVars, jsonVars, ingestVars, pageVars, filterVars, kalmanVars, saveVars,
      configVars>>
parseVars ==
    <<proto_mode, field_naming, device_ms, frame_values, parsed, prev_parsed, samples>>
dpvVars == <<dpv_params, dpv_pc, dpv_step, voltage_array>>
rxVars == <<rxImpl, hex_receive_check, binary_mode_check, rx_json_buffer,
           rx_binary_buffer, data_received, receive_text, rx_last,
           rx_is_connected, rx_opens>>
kpVars == <<kpImpl, kalman_Q_edit, kalman_R_edit, filt_kalman_Q, filt_kalman_R,
           kalman_filters, kp_warnings, kp_last>>
curveVars == <<curve_params, curve_pc, curve_i, potential>>
roundTripVars == <<rt_impl, rt_cfg, rt_document, rt_loaded, rt_pc>>
bleVars == <<ble_client, ble_made, ble_links, btn_scan_enabled, btn_connect_enabled, combo_devices_enabled, combo_devices, current_text, ble_scans, ble_tasks>>
restVars == <<cvVars, parseVars, dpvVars, rxVars, kpVars, curveVars, roundTripVars, bleVars>>
notCvVars == <<coreVars, parseVars, dpvVars, rxVars, kpVars, curveVars, roundTripVars, bleVars>>
notParseVars == <<coreVars, cvVars, dpvVars, rxVars, kpVars, curveVars, roundTripVars, bleVars>>
notDpvVars == <<coreVars, cvVars, parseVars, rxVars, kpVars, curveVars, roundTripVars, bleVars>>
notRxVars == <<coreVars, cvVars, parseVars, dpvVars, kpVars, curveVars, roundTripVars, bleVars>>
notKpVars == <<coreVars, cvVars, parseVars, dpvVars, rxVars, curveVars, roundTripVars, bleVars>>
notCurveVars == <<coreVars, cvVars, parseVars, dpvVars, rxVars, kpVars, roundTripVars, bleVars>>
notRoundTripVars == <<coreVars, cvVars, parseVars, dpvVars, rxVars, kpVars, curveVars, bleVars>>
notBleVars == <<coreVars, cvVars, parseVars, dpvVars, rxVars, kpVars, curveVars, roundTripVars>>

vars ==
    <<binVars, jsonVars, ingestVars, pageVars, filterVars, kalmanVars, saveVars,
      configVars, restVars>>

\* what the actions of one component leave alone
notBinVars ==
    <<jsonVars, ingestVars, pageVars, filterVars, kalmanVars, saveVars, configVars,
      restVars>>
notJsonVars ==
    <<binVars, ingestVars, pageVars, filterVars, kalmanVars, saveVars, configVars,
      restVars>>
notIngestVars ==
    <<binVars, jsonVars, pageVars, filterVars, kalmanVars, saveVars, configVars,
      restVars>>
notPageVars ==
    <<binVars, jsonVars, ingestVars, filterVars, kalmanVars, saveVars, configVars,
      restVars>>
notFilterVars ==
    <<binVars, jsonVars, ingestVars, pageVars, kalmanVars, saveVars, configVars,
      restVars>>
notSaveVars ==
    <<binVars, jsonVars, ingestVars, pageVars, filterVars, kalmanVars, configVars,
      restVars>>
notConfigVars ==
    <<binVars, jsonVars, ingestVars, pageVars, filterVars, kalmanVars, saveVars,
      restVars>>
notKalmanVars ==
    <<binVars, jsonVars, ingestVars, pageVars, filterVars, saveVars, configVars,
      restVars>>

----------------------------------------------------------------------------
(* Sequence helpers *)

Take(s, n) == SubSeq(s, 1, n)
Drop(s, n) == SubSeq(s, n + 1, Len(s))

RECURSIVE SumSeq(_)
SumSeq(s) == IF s = <<>> THEN 0 ELSE Head(s) + SumSeq(Tail(s))

RECURSIVE Flatten(_)
Flatten(ss) == IF ss = <<>> THEN <<>> ELSE Head(ss) \o Flatten(Tail(ss))


----------------------------------------------------------------------------
(* Binary frame decoder *)

FRAME_LEN == 15
HEAD == 165
TAIL == 90

\* struct.unpack("<H", b): 16-bit little-endian
UnpackH_BigEndian(b) == b[1] * 256 + b[2]
UnpackH(b) == b[1] + 256 * b[2]

\* struct.unpack("<I", b): 32-bit little-endian
UnpackI(b) == b[1] + 256 * b[2] + 65536 * b[3] + 16777216 * b[4]

\* calc_sum = sum(payload) & 0xFF
CalcSum(payload) == SumSeq(payload) % 256

\* the decoded mapping; t is ms in the library decoder and ms / 1000.0 in
\* the serial page, voltage is (code12 / 4095.0) * 3.3
DecodedData(impl, payload) ==
    LET ms       == UnpackI(SubSeq(payload, 1, 4))
        uric     == UnpackH(SubSeq(payload, 5, 6))
        ascorbic == UnpackH(SubSeq(payload, 7, 8))
        glucose  == UnpackH(SubSeq(payload, 9, 10))
        code12   == UnpackH(SubSeq(payload, 11, 12))
    IN  [ t        |-> IF impl = "BinaryFrameDecoder"
                       THEN [num |-> ms, den |-> 1]
                       ELSE [num |-> ms, den |-> 1000],
          voltage  |-> [num |-> code12 * 33, den |-> 40950],
          uric     |-> uric,
          ascorbic |-> ascorbic,
          glucose  |-> glucose ]

\* the wire layout: Head(1) MS(4) Uric(2) Ascorbic(2) Glucose(2) Code12(2)
\* Sum(1) Tail(1), little endian
LE16(n) == <<n % 256, n \div 256>>
LE32(n) == <<n % 256, (n \div 256) % 256, (n \div 65536) % 256, n \div 16777216>>
Payload(raw) ==
    LE32(raw.ms) \o LE16(raw.uric) \o LE16(raw.ascorbic)
        \o LE16(raw.glucose) \o LE16(raw.code12)
PackFrame(raw) ==
    <<HEAD>> \o Payload(raw) \o <<SumSeq(Payload(raw)) % 256, TAIL>>

\* ---- input streams of the binary decoder ----

MaxGarbage == 100      \* longest run of garbage bytes before a frame
MaxSegs == 2           \* segments of a mixed stream
ChunkSizes == {1, 2, FRAME_LEN}

MsValues == {0, 1000, 16909060, 2147483647}
UricValues == {0, 4660, 42405, 65535}
AscorbicValues == {1, 256}
GlucoseValues == {2, 23205}
Code12Values == {0, 2048, 4095}

Raws ==
    [ms : MsValues, uric : UricValues, ascorbic : AscorbicValues,
     glucose : GlucoseValues, code12 : Code12Values]

Raw1 == [ms |-> 1000, uric |-> 4660, ascorbic |-> 256, glucose |-> 2,
         code12 |-> 2048]
Raw2 == [ms |-> 16909060, uric |-> 42405, ascorbic |-> 1, glucose |-> 23205,
         code12 |-> 255]
BaseRaws == {Raw1, Raw2}

\* garbage free of the head byte 0xA5 (it does hold the tail byte 0x5A)
GarbagePatterns == << <<0>>, <<90, 255, 164, 166>> >>
Garbage(p, n) ==
    [i \in 1..n |-> GarbagePatterns[p][((i - 1) % Len(GarbagePatterns[p])) + 1]]

\* a frame with payload byte pos (1..12) overwritten and the checksum kept
Corrupt(frame, pos, val) == [frame EXCEPT ![pos + 1] = val]

\* a frame whose sixth byte is the tail byte 0x5A, and nine bytes of line
\* noise that start with the head byte: the noise and the frame's first six
\* bytes make a window with head, tail and a matching checksum
\* (0x5B + 0xA5 = 0x100)
Raw3 == [ms |-> 0, uric |-> 90, ascorbic |-> 1, glucose |-> 2, code12 |-> 2048]
FalseHeadNoise == <<HEAD, 91, 0, 0, 0, 0, 0, 0, 0>>

\* segments of mixed streams: stray heads and tails, good and bad frames
SegLib ==
    << <<HEAD>>, <<TAIL>>, <<0>>,
       PackFrame(Raw1), PackFrame(Raw2),
       [PackFrame(Raw1) EXCEPT ![FRAME_LEN] = 0],
       Corrupt(PackFrame(Raw2), 3, 7),
       FalseHeadNoise, PackFrame(Raw3) >>

SegChoices == UNION {[1..n -> 1..Len(SegLib)] : n \in 1..MaxSegs}

NoCase == [kind |-> "none", raw |-> Raw1, n |-> 0, pat |-> 1, pos |-> 0,
           val |-> 0, segs |-> <<>>, chunked |-> FALSE]

BinCases ==
    {[NoCase EXCEPT !.kind = "roundtrip", !.raw = r, !.chunked = c] :
        r \in Raws, c \in BOOLEAN}
    \cup {[NoCase EXCEPT !.kind = "resync", !.raw = r, !.n = n, !.pat = p] :
        r \in BaseRaws, n \in 0..MaxGarbage, p \in 1..Len(GarbagePatterns)}
    \cup {[NoCase EXCEPT !.kind = "corrupt", !.raw = r, !.pos = i, !.val = v] :
        r \in BaseRaws, i \in 1..12, v \in 0..255}
    \cup {[NoCase EXCEPT !.kind = "mixed", !.segs = sg, !.chunked = TRUE] :
        sg \in SegChoices}

BinStream(c) ==
    CASE c.kind = "roundtrip" -> PackFrame(c.raw)
      [] c.kind = "resync"    -> Garbage(c.pat, c.n) \o PackFrame(c.raw)
      [] c.kind = "corrupt"   -> Corrupt(PackFrame(c.raw), c.pos, c.val)
      [] c.kind = "mixed"     -> Flatten([i \in 1..Len(c.segs) |-> SegLib[c.segs[i]]])
      [] OTHER                -> <<>>

BinImpls == {"BinaryFrameDecoder", "SerialPage"}

\* BinaryFrameDecoder.__init__ / SerialPage.__init__: empty buffer
BinInit ==
    /\ binImpl \in BinImpls
    /\ binCase \in {c \in BinCases :
                      c.kind = "corrupt" => PackFrame(c.raw)[c.pos + 1] # c.val}
    /\ binRest = BinStream(binCase)
    /\ buffer = <<>>
    /\ binPc = "idle"
    /\ binEmitted = <<>>

BinIdle ==
    /\ binImpl = "BinaryFrameDecoder"
    /\ binCase = NoCase
    /\ binRest = <<>>
    /\ buffer = <<>>
    /\ binPc = "idle"
    /\ binEmitted = <<>>

\* ---- the loop of feed / process_binary_buffer, one iteration per step ----

\* while len(self.buffer) >= self.FRAME_LEN
LoopCond_OffByOne(buf) == Len(buf) > FRAME_LEN
LoopCond(buf) == Len(buf) >= FRAME_LEN

\* calc_sum == recv_sum, payload = frame[1:13], recv_sum = frame[13]
ChecksumOk_Skipped(frame) == TRUE
ChecksumOk(frame) == CalcSum(SubSeq(frame, 2, 13)) = frame[14]

\* del self.buffer[:self.FRAME_LEN]
ConsumeFrame_Short(buf) == Drop(buf, FRAME_LEN - 1)
ConsumeFrame(buf) == Drop(buf, FRAME_LEN)

\* self.buffer.extend(data), then the loop starts
BinFeed ==
    /\ binPc = "idle"
    /\ binRest # <<>>
    /\ \E k \in IF binCase.chunked
                THEN (ChunkSizes \cup {Len(binRest)}) \cap (1..Len(binRest))
                ELSE {Len(binRest)} :
          /\ buffer' = buffer \o Take(binRest, k)
          /\ binRest' = Drop(binRest, k)
    /\ binPc' = "loop"
    /\ UNCHANGED <<binImpl, binCase, binEmitted>>
    /\ UNCHANGED notBinVars

\* first byte is not the head: pop it, continue
BinDropNonHead ==
    /\ binPc = "loop"
    /\ LoopCond(buffer)
    /\ buffer[1] # HEAD
    /\ buffer' = Tail(buffer)
    /\ UNCHANGED <<binImpl, binCase, binRest, binPc, binEmitted>>
    /\ UNCHANGED notBinVars

\* head found but byte 14 is not the tail: pop the head, continue
BinDropBadTail ==
    /\ binPc = "loop"
    /\ LoopCond(buffer)
    /\ buffer[1] = HEAD
    /\ buffer[FRAME_LEN] # TAIL
    /\ buffer' = Tail(buffer)
    /\ UNCHANGED <<binImpl, binCase, binRest, binPc, binEmitted>>
    /\ UNCHANGED notBinVars

\* head and tail match, checksum passes: unpack, emit, consume 15 bytes
BinEmitFrame ==
    /\ binPc = "loop"
    /\ LoopCond(buffer)
    /\ buffer[1] = HEAD
    /\ buffer[FRAME_LEN] = TAIL
    /\ LET frame == Take(buffer, FRAME_LEN)
       IN  /\ ChecksumOk(frame)
           /\ binEmitted' =
                 Append(binEmitted, DecodedData(binImpl, SubSeq(frame, 2, 13)))
    /\ buffer' = ConsumeFrame(buffer)
    /\ UNCHANGED <<binImpl, binCase, binRest, binPc>>
    /\ UNCHANGED notBinVars

\* head and tail match, checksum fails: pop the head, continue
BinDropBadChecksum ==
    /\ binPc = "loop"
    /\ LoopCond(buffer)
    /\ buffer[1] = HEAD
    /\ buffer[FRAME_LEN] = TAIL
    /\ ~ChecksumOk(Take(buffer, FRAME_LEN))
    /\ buffer' = Tail(buffer)
    /\ UNCHANGED <<binImpl, binCase, binRest, binPc, binEmitted>>
    /\ UNCHANGED notBinVars

\* loop condition false: feed returns
BinReturn ==
    /\ binPc = "loop"
    /\ ~LoopCond(buffer)
    /\ binPc' = "idle"
    /\ UNCHANGED <<binImpl, binCase, binRest, buffer, binEmitted>>
    /\ UNCHANGED notBinVars

BinLoopStep ==
    BinDropNonHead \/ BinDropBadTail \/ BinEmitFrame \/ BinDropBadChecksum
        \/ BinReturn

----------------------------------------------------------------------------
(* JSON object decoders *)

\* Characters are one-character strings.  Bytes are the same strings for
\* ASCII, plus the two bytes C3 A9 of the UTF-8 encoding of one non-ASCII
\* character, written "E" once decoded.
LB == "{"
RB == "}"
QT == "\""
BS == "\\"
Digits == {"1", "2"}
Escapable == {QT, BS, "b", "n"}      \* \" \\ \b \n are JSON escapes

\* data.decode('utf-8', errors='ignore'): a lead byte without its
\* continuation byte, or a continuation byte on its own, is dropped
RECURSIVE Decode(_)
Decode(bytes) ==
    IF bytes = <<>> THEN <<>>
    ELSE IF bytes[1] = "C3"
         THEN IF Len(bytes) >= 2 /\ bytes[2] = "A9"
              THEN <<"E">> \o Decode(Drop(bytes, 2))
              ELSE Decode(Tail(bytes))
    ELSE IF bytes[1] = "A9" THEN Decode(Tail(bytes))
    ELSE <<bytes[1]>> \o Decode(Tail(bytes))

Contains(s, ch) == \E i \in 1..Len(s) : s[i] = ch

\* str.find / str.rfind, 1-based, 0 for "not found"
Find(s, ch) ==
    IF Contains(s, ch)
    THEN CHOOSE i \in 1..Len(s) : s[i] = ch /\ \A j \in 1..(i - 1) : s[j] # ch
    ELSE 0
RFind(s, ch) ==
    IF Contains(s, ch)
    THEN CHOOSE i \in 1..Len(s) : s[i] = ch /\ \A j \in (i + 1)..Len(s) : s[j] # ch
    ELSE 0

\* ---- json.loads on a span: accepts exactly the JSON objects ----
\* each parser returns the index after what it parsed, 0 on a syntax error
RECURSIVE PStringBody(_, _)
PStringBody(s, i) ==
    IF i > Len(s) THEN 0
    ELSE IF s[i] = QT THEN i + 1
    ELSE IF s[i] = BS
         THEN IF i + 1 <= Len(s) /\ s[i + 1] \in Escapable
              THEN PStringBody(s, i + 2)
              ELSE 0
    ELSE PStringBody(s, i + 1)

PString(s, i) == IF i <= Len(s) /\ s[i] = QT THEN PStringBody(s, i + 1) ELSE 0

RECURSIVE PNumber(_, _)
PNumber(s, i) ==
    IF i + 1 <= Len(s) /\ s[i + 1] \in Digits THEN PNumber(s, i + 1) ELSE i + 1

RECURSIVE PValue(_, _)
RECURSIVE PMembers(_, _)
PObject(s, i) ==
    IF i + 1 <= Len(s) /\ s[i] = LB
    THEN IF s[i + 1] = RB THEN i + 2 ELSE PMembers(s, i + 1)
    ELSE 0
PValue(s, i) ==
    IF i > Len(s) THEN 0
    ELSE IF s[i] = QT THEN PString(s, i)
    ELSE IF s[i] = LB THEN PObject(s, i)
    ELSE IF s[i] \in Digits THEN PNumber(s, i)
    ELSE 0
PMembers(s, i) ==
    LET k == PString(s, i)
    IN  IF k = 0 \/ k > Len(s) \/ s[k] # ":" THEN 0
        ELSE LET v == PValue(s, k + 1)
             IN  IF v = 0 \/ v > Len(s) THEN 0
                 ELSE IF s[v] = "," THEN PMembers(s, v + 1)
                 ELSE IF s[v] = RB THEN v + 1
                 ELSE 0

JsonLoadsOk(s) == PObject(s, 1) = Len(s) + 1

\* ---- JsonFrameDecoder.feed ----

\* the bracket count from start: index of the first position where depth
\* returns to 0, 0 if there is none; quotes are not looked at
RECURSIVE MatchEnd(_, _, _)
MatchEnd(buf, i, depth) ==
    IF i > Len(buf) THEN 0
    ELSE LET d == IF buf[i] = LB THEN depth + 1
                  ELSE IF buf[i] = RB THEN depth - 1
                  ELSE depth
         IN  IF d = 0 THEN i ELSE MatchEnd(buf, i + 1, d)

\* while "}" in self.buffer: ...   returns the buffer and the emissions
RECURSIVE FeedLoop(_, _)
FeedLoop(buf, out) ==
    IF ~Contains(buf, RB) THEN [buf |-> buf, out |-> out]
    ELSE LET start == Find(buf, LB)
         IN  IF start = 0 THEN [buf |-> <<>>, out |-> out]
             ELSE LET end == MatchEnd(buf, start, 0)
                  IN  IF end = 0 THEN [buf |-> buf, out |-> out]
                      ELSE LET json_str == SubSeq(buf, start, end)
                           IN  FeedLoop(Drop(buf, end),
                                        IF JsonLoadsOk(json_str)
                                        THEN Append(out, json_str)
                                        ELSE out)

\* ---- SerialPage.process_json_buffer ----

\* the scan over buf: the (start, end) pairs of the top-level spans
RECURSIVE ScanObjs(_, _, _, _, _, _, _)
ScanObjs(buf, i, in_str, esc, depth, start, objs) ==
    IF i > Len(buf) THEN objs
    ELSE LET ch == buf[i]
         IN  IF in_str
             THEN IF esc THEN ScanObjs(buf, i + 1, TRUE, FALSE, depth, start, objs)
                  ELSE IF ch = BS
                       THEN ScanObjs(buf, i + 1, TRUE, TRUE, depth, start, objs)
                  ELSE IF ch = QT
                       THEN ScanObjs(buf, i + 1, FALSE, FALSE, depth, start, objs)
                  ELSE ScanObjs(buf, i + 1, TRUE, FALSE, depth, start, objs)
             ELSE IF ch = QT
                  THEN ScanObjs(buf, i + 1, TRUE, esc, depth, start, objs)
             ELSE IF ch = LB
                  THEN ScanObjs(buf, i + 1, FALSE, esc, depth + 1,
                                IF depth = 0 THEN i ELSE start, objs)
             ELSE IF ch = RB /\ depth > 0
                  THEN ScanObjs(buf, i + 1, FALSE, esc, depth - 1, start,
                                IF depth - 1 = 0 /\ start # 0
                                THEN Append(objs, <<start, i>>)
                                ELSE objs)
             ELSE ScanObjs(buf, i + 1, FALSE, esc, depth, start, objs)

\* for s, e in objs: json.loads(buf[s:e + 1]); emit or skip
RECURSIVE EmitSpans(_, _, _)
EmitSpans(buf, objs, out) ==
    IF objs = <<>> THEN out
    ELSE LET json_str == SubSeq(buf, objs[1][1], objs[1][2])
         IN  EmitSpans(buf, Tail(objs),
                       IF JsonLoadsOk(json_str) THEN Append(out, json_str) ELSE out)

\* what is kept when no span completed: buf[idx:] from the last "{"
KeepFrom(buf) ==
    LET idx == RFind(buf, LB) IN IF idx > 0 THEN Drop(buf, idx - 1) ELSE <<>>

process_json_buffer(buf, out) ==
    IF buf = <<>> THEN [buf |-> buf, out |-> out]
    ELSE LET objs == ScanObjs(buf, 1, FALSE, FALSE, 0, 0, <<>>)
         IN  [buf |-> IF objs # <<>>
                      THEN Drop(buf, objs[Len(objs)][2])
                      ELSE KeepFrom(buf),
              out |-> EmitSpans(buf, objs, out)]

\* ---- input streams of the JSON decoders ----

MaxJsonSegs == 4       \* segments of a stream of noise and flat objects
MaxChunks == 3         \* feed calls that deliver a stream
MaxGood == 2           \* well-formed objects sent after a malformed fragment

\* segments: 1 noise; 2-5 flat objects ({"a":1,"b":2}  {"b":2}  {"a":"b"}
\* {"a":"E"} with E sent as the bytes C3 A9); 6 a nested object
\* {"a":{"b":1}}; 7-9 objects with braces inside a string ({"a":"}"}
\* {"a":"{"}  {"a":"\"}"}); 10-14 malformed fragments ({a}  {  {"a":"b  }
\* {"a":1 )
JsonSegLib ==
    << <<"n", "a">>,
       <<LB, QT, "a", QT, ":", "1", ",", QT, "b", QT, ":", "2", RB>>,
       <<LB, QT, "b", QT, ":", "2", RB>>,
       <<LB, QT, "a", QT, ":", QT, "b", QT, RB>>,
       <<LB, QT, "a", QT, ":", QT, "C3", "A9", QT, RB>>,
       <<LB, QT, "a", QT, ":", LB, QT, "b", QT, ":", "1", RB, RB>>,
       <<LB, QT, "a", QT, ":", QT, RB, QT, RB>>,
       <<LB, QT, "a", QT, ":", QT, LB, QT, RB>>,
       <<LB, QT, "a", QT, ":", QT, BS, QT, RB, QT, RB>>,
       <<LB, "a", RB>>,
       <<LB>>,
       <<LB, QT, "a", QT, ":", QT, "b">>,
       <<RB>>,
       <<LB, QT, "a", QT, ":", "1">> >>

NoiseSegs == {1}
FlatSegs == {2, 3, 4, 5}
AsciiFlatSegs == {2, 3, 4}
NestedSegs == {6}
QuotedBraceSegs == {7, 8, 9}
StreamSegs == {1, 3, 5}
ObjectSegs == FlatSegs \cup NestedSegs \cup QuotedBraceSegs
BadSegs == {10, 11, 12, 13, 14}

NoJsonCase == [kind |-> "none", segs |-> <<>>]

JsonCases ==
    {[kind |-> "flat", segs |-> sg] :
        sg \in UNION {[1..n -> StreamSegs] : n \in 1..MaxJsonSegs}}
    \cup {[kind |-> "single", segs |-> <<o>>] : o \in ObjectSegs}
    \cup {[kind |-> "afterbad", segs |-> <<b>> \o sg] :
        b \in BadSegs, sg \in UNION {[1..n -> {2, 3}] : n \in 1..MaxGood}}

JsonStream(c) == Flatten([i \in 1..Len(c.segs) |-> JsonSegLib[c.segs[i]]])

\* the objects of the stream, in stream order, as json.loads returns them
RECURSIVE ObjectsOf(_)
ObjectsOf(segs) ==
    IF segs = <<>> THEN <<>>
    ELSE (IF Head(segs) \in ObjectSegs
          THEN <<Decode(JsonSegLib[Head(segs)])>>
          ELSE <<>>) \o ObjectsOf(Tail(segs))

\* the last of MaxChunks chunks delivers what is left
ChunkLens(fed, rest) ==
    IF fed + 1 >= MaxChunks THEN {Len(rest)} ELSE 1..Len(rest)

JsonImpls == {"JsonFrameDecoder", "SerialPage"}

\* JsonFrameDecoder.__init__ / SerialPage.__init__: empty buffer
JsonInit ==
    /\ jsonImpl \in JsonImpls
    /\ jsonCase \in JsonCases
    /\ jsonRest = JsonStream(jsonCase)
    /\ jsonFeeds = 0
    /\ json_buffer = <<>>
    /\ jsonEmitted = <<>>

JsonIdle ==
    /\ jsonImpl = "JsonFrameDecoder"
    /\ jsonCase = NoJsonCase
    /\ jsonRest = <<>>
    /\ jsonFeeds = 0
    /\ json_buffer = <<>>
    /\ jsonEmitted = <<>>

\* JsonFrameDecoder.feed(data, on_frame_decoded) with the next chunk
JsonFeed ==
    /\ jsonImpl = "JsonFrameDecoder"
    /\ jsonRest # <<>>
    /\ \E k \in ChunkLens(jsonFeeds, jsonRest) :
          LET text == Decode(Take(jsonRest, k))
              r == FeedLoop(json_buffer \o text, jsonEmitted)
          IN  /\ json_buffer' = r.buf
              /\ jsonEmitted' = r.out
              /\ jsonRest' = Drop(jsonRest, k)
    /\ jsonFeeds' = jsonFeeds + 1
    /\ UNCHANGED <<jsonImpl, jsonCase>>
    /\ UNCHANGED notJsonVars

\* SerialPage.handle_data(data) on the JSON path with the next chunk:
\* self.json_buffer += data.decode(errors='ignore'); process_json_buffer()
JsonHandleData ==
    /\ jsonImpl = "SerialPage"
    /\ jsonRest # <<>>
    /\ \E k \in ChunkLens(jsonFeeds, jsonRest) :
          LET text == Decode(Take(jsonRest, k))
              r == process_json_buffer(json_buffer \o text, jsonEmitted)
          IN  /\ json_buffer' = r.buf
              /\ jsonEmitted' = r.out
              /\ jsonRest' = Drop(jsonRest, k)
    /\ jsonFeeds' = jsonFeeds + 1
    /\ UNCHANGED <<jsonImpl, jsonCase>>
    /\ UNCHANGED notJsonVars


----------------------------------------------------------------------------
(* Data monitoring page: pending queue, batch flush, table and charts *)

MAX_PER_TICK == 50
max_time_data == 300
max_volt_data == 2000

MaxFrames == 61                \* frames received in a run
MaxUserOps == 2                \* operator actions in a run
BurstSizes == {10, 51}         \* frames decoded from one received chunk
MaxRowsChoices == {2, 2000}    \* max_table_rows as loaded (2000 by default)
SpinRowsChoices == {100, 300}  \* values of max_rows_spin (range 100..100000)

\* seconds of the k-th frame: constant, rising 100 s per frame, or a sawtooth
\* (the device restarts every fifth frame)
TimeOf(pat, k) ==
    CASE pat = 1 -> 0
      [] pat = 2 -> 100 * k
      [] OTHER   -> 100 * (k % 5)

\* a decoded frame as update_data gets it; id is its arrival number
FrameNo(pat, k) == [id |-> k, t |-> TimeOf(pat, k)]

Last(s, n) == IF Len(s) > n THEN SubSeq(s, Len(s) - n + 1, Len(s)) ELSE s

\* [(t, g) for t, g in points if t >= lo]
NotOlderThan(points, lo) ==
    LET Keep(p) == p.t >= lo IN SelectSeq(points, Keep)

\* _trim_table_rows: removeRow(0) while rowCount() > max_rows
TrimTableRows_KeepOldest(table, max_rows) ==
    IF Len(table) > max_rows THEN Take(table, max_rows) ELSE table
TrimTableRows(table, max_rows) ==
    IF Len(table) > max_rows
    THEN SubSeq(table, Len(table) - max_rows + 1, Len(table))
    ELSE table

\* batch = self._pending_data[:MAX_PER_TICK]
Batch_Newest(pending) == Last(pending, MAX_PER_TICK)
Batch(pending) ==
    IF Len(pending) > MAX_PER_TICK THEN Take(pending, MAX_PER_TICK) ELSE pending
\* self._pending_data = self._pending_data[MAX_PER_TICK:]
AfterBatch(pending) ==
    IF Len(pending) > MAX_PER_TICK THEN Drop(pending, MAX_PER_TICK) ELSE <<>>

\* the table row _process_single_data makes of frame d
RowOf(d) == [id |-> d.id, seconds |-> d.t]

\* _process_single_data on the page state st = [table, cached, gt, vg]
ProcessSingleData(st, d) ==
    LET seconds == d.t
        row == RowOf(d)
        pt == [id |-> d.id, t |-> seconds]
    IN  [ table  |-> TrimTableRows(Append(st.table, row), max_table_rows),
          cached |-> IF auto_save THEN Append(st.cached, row) ELSE st.cached,
          gt     |-> NotOlderThan(Append(st.gt, pt), seconds - max_time_data),
          vg     |-> Last(Append(st.vg, pt), max_volt_data) ]

\* for d in batch: self._process_single_data(d)
\* (batch[lo], ..., batch[hi] one after the other, left to right; the range is
\* halved and the state after the first half is bound as a value before the
\* second half starts, which keeps the evaluation shallow)
RECURSIVE ProcessRange(_, _, _, _)
ProcessRange(st, batch, lo, hi) ==
    IF lo > hi THEN st
    ELSE IF lo = hi THEN ProcessSingleData(st, batch[lo])
    ELSE LET mid == (lo + hi) \div 2
         IN  CHOOSE r \in { ProcessRange(s, batch, mid + 1, hi) :
                               s \in {ProcessRange(st, batch, lo, mid)} } : TRUE

ProcessBatch(st, batch) == ProcessRange(st, batch, 1, Len(batch))

IngestInit ==
    /\ received = 0
    /\ userOps = 0
    /\ timePat \in 1..3
    /\ pending_data = <<>>
    /\ data_table = <<>>
    /\ max_table_rows \in MaxRowsChoices
    /\ auto_save \in BOOLEAN
    /\ cached_data = <<>>
    /\ glucose_time_data = <<>>
    /\ voltage_glucose_data = <<>>
    /\ chart_index = 0
    /\ time_glucose_series = <<>>
    /\ volt_glucose_series = <<>>
    /\ ingested_rows = <<>>

IngestIdle ==
    /\ received = 0
    /\ userOps = 0
    /\ timePat = 1
    /\ pending_data = <<>>
    /\ data_table = <<>>
    /\ max_table_rows = 2000
    /\ auto_save = FALSE
    /\ cached_data = <<>>
    /\ glucose_time_data = <<>>
    /\ voltage_glucose_data = <<>>
    /\ chart_index = 0
    /\ time_glucose_series = <<>>
    /\ volt_glucose_series = <<>>
    /\ ingested_rows = <<>>

\* update_data, once per frame that one received chunk decodes to
update_data ==
    /\ \E k \in BurstSizes :
          /\ received + k <= MaxFrames
          /\ pending_data' =
                pending_data \o [i \in 1..k |-> FrameNo(timePat, received + i)]
          /\ received' = received + k
    /\ UNCHANGED <<userOps, timePat, data_table, max_table_rows, auto_save,
                   cached_data, glucose_time_data, voltage_glucose_data,
                   chart_index, time_glucose_series, volt_glucose_series,
                   ingested_rows>>
    /\ UNCHANGED notIngestVars

\* _flush_pending_data: the timer tick of _ui_update_timer
flush_pending_data ==
    /\ pending_data # <<>>
    /\ LET st == ProcessBatch([table |-> data_table, cached |-> cached_data,
                               gt |-> glucose_time_data,
                               vg |-> voltage_glucose_data],
                              Batch(pending_data))
       IN  /\ pending_data' = AfterBatch(pending_data)
           /\ data_table' = st.table
           /\ cached_data' = st.cached
           /\ glucose_time_data' = st.gt
           /\ voltage_glucose_data' = st.vg
           /\ time_glucose_series' =
                IF chart_index = 0 /\ st.gt # <<>> THEN st.gt ELSE time_glucose_series
           /\ volt_glucose_series' =
                IF chart_index = 3 /\ st.vg # <<>> THEN st.vg ELSE volt_glucose_series
           /\ ingested_rows' =
                ingested_rows \o [i \in 1..Len(Batch(pending_data)) |->
                                    RowOf(Batch(pending_data)[i])]
    /\ UNCHANGED <<received, userOps, timePat, max_table_rows, auto_save,
                   chart_index>>
    /\ UNCHANGED notIngestVars

\* the operator acts once more
UserOp ==
    /\ userOps < MaxUserOps
    /\ userOps' = userOps + 1

\* _update_max_rows(value), from max_rows_spin
update_max_rows ==
    /\ UserOp
    /\ \E value \in SpinRowsChoices :
          /\ value # max_table_rows
          /\ max_table_rows' = value
          /\ data_table' = TrimTableRows(data_table, value)
    /\ UNCHANGED <<received, timePat, pending_data, auto_save, cached_data,
                   glucose_time_data, voltage_glucose_data, chart_index,
                   time_glucose_series, volt_glucose_series, ingested_rows>>
    /\ UNCHANGED notIngestVars

\* switch_chart(index)
switch_chart ==
    /\ UserOp
    /\ chart_index' = 3 - chart_index
    /\ UNCHANGED <<received, timePat, pending_data, data_table, max_table_rows,
                   auto_save, cached_data, glucose_time_data,
                   voltage_glucose_data, time_glucose_series, volt_glucose_series,
                   ingested_rows>>
    /\ UNCHANGED notIngestVars

\* clear_charts
clear_charts ==
    /\ UserOp
    /\ glucose_time_data # <<>> \/ time_glucose_series # <<>>
          \/ volt_glucose_series # <<>>
    /\ glucose_time_data' = <<>>
    /\ voltage_glucose_data' = <<>>
    /\ time_glucose_series' = <<>>
    /\ volt_glucose_series' = <<>>
    /\ UNCHANGED <<received, timePat, pending_data, data_table, max_table_rows,
                   auto_save, cached_data, chart_index, ingested_rows>>
    /\ UNCHANGED notIngestVars

\* clear_all_data, answered Yes
clear_all_data ==
    /\ UserOp
    /\ received > 0
    /\ data_table' = <<>>
    /\ glucose_time_data' = <<>>
    /\ voltage_glucose_data' = <<>>
    /\ time_glucose_series' = <<>>
    /\ volt_glucose_series' = <<>>
    /\ pending_data' = <<>>
    /\ cached_data' = <<>>
    /\ ingested_rows' = <<>>
    /\ UNCHANGED <<received, timePat, max_table_rows, auto_save, chart_index>>
    /\ UNCHANGED notIngestVars


----------------------------------------------------------------------------
(* Serial page: open, close, receive worker, timers and queued signals *)

MaxHandles == 2      \* port handles alive at a time
MaxThreads == 2      \* worker threads alive at a time
MaxPending == 2      \* pending shots of one timer, queued error signals

Handles == 1..MaxHandles
ThreadIds == 1..MaxThreads

\* a QThread slot that holds no running thread
NoThread == [port |-> 0, st |-> "none"]

\* threads started and not finished
Live == {t \in ThreadIds : threads[t].st # "none"}

\* handles a worker of a live thread still refers to
HeldByWorker == {threads[t].port : t \in Live}

PageInit ==
    /\ serial_port = 0
    /\ open_ports = {}
    /\ is_connected = FALSE
    /\ is_bluetooth = FALSE
    /\ selected_bluetooth \in BOOLEAN
    /\ auto_connect = FALSE
    /\ worker_thread = 0
    /\ threads = [t \in ThreadIds |-> NoThread]
    /\ pending_async_open = 0
    /\ pending_start_worker = 0
    /\ pending_reconnect = 0
    /\ pending_errors = 0
    /\ blocked = "no"
    /\ crashed = FALSE
    /\ status_label = "disconnected"

PageIdle ==
    /\ serial_port = 0
    /\ open_ports = {}
    /\ is_connected = FALSE
    /\ is_bluetooth = FALSE
    /\ selected_bluetooth = FALSE
    /\ auto_connect = FALSE
    /\ worker_thread = 0
    /\ threads = [t \in ThreadIds |-> NoThread]
    /\ pending_async_open = 0
    /\ pending_start_worker = 0
    /\ pending_reconnect = 0
    /\ pending_errors = 0
    /\ blocked = "no"
    /\ crashed = FALSE
    /\ status_label = "disconnected"

\* the GUI thread is in its event loop and can run a handler
MainReady == ~crashed /\ blocked = "no"

\* a handle nobody refers to any more is closed when it is collected
Collected(ports, old, thr) ==
    IF old # 0 /\ old \notin {thr[t].port : t \in {u \in ThreadIds : thr[u].st # "none"}}
    THEN ports \ {old}
    ELSE ports

\* the slot of the next QThread, the number of the next handle
FreeThread == {t \in ThreadIds : /\ threads[t].st = "none"
                                 /\ \A u \in 1..(t - 1) : threads[u].st # "none"}
Unused(h) == h \notin open_ports /\ h # serial_port /\ h \notin HeldByWorker
FreeHandle == {h \in Handles : Unused(h) /\ \A g \in 1..(h - 1) : ~Unused(g)}

\* the process is aborted: its threads, handles, timers and events go with it
Abort ==
    /\ crashed' = TRUE
    /\ serial_port' = 0
    /\ open_ports' = {}
    /\ is_connected' = FALSE
    /\ is_bluetooth' = FALSE
    /\ selected_bluetooth' = FALSE
    /\ auto_connect' = FALSE
    /\ worker_thread' = 0
    /\ threads' = [t \in ThreadIds |-> NoThread]
    /\ pending_async_open' = 0
    /\ pending_start_worker' = 0
    /\ pending_reconnect' = 0
    /\ pending_errors' = 0
    /\ blocked' = "no"
    /\ status_label' = "disconnected"

\* open_serial with a port selected: note the kind of port, post the open
open_serial ==
    /\ pending_async_open < MaxPending
    /\ is_bluetooth' = selected_bluetooth
    /\ pending_async_open' = pending_async_open + 1

\* start_worker with self.serial_port = port: a new QThread and SerialWorker
\* take the place of whatever worker_thread and worker referred to
start_worker(port) ==
    \E t \in FreeThread :
       /\ threads' = [threads EXCEPT ![t] = [port |-> port, st |-> "starting"]]
       /\ worker_thread' = t

\* what start_worker overwrites is a QThread that still runs: Qt aborts the
\* process when a running QThread is destroyed; where the thread object
\* outlives the reference, the thread runs on
OverwritesRunningThread == worker_thread # 0

\* stop_worker has joined the thread (or there was none); close_serial goes on
\* with serial_port.close() and reset_connection_state
port_closed(why) ==
    /\ threads' = IF worker_thread # 0
                  THEN [threads EXCEPT ![worker_thread] = NoThread]
                  ELSE threads
    /\ worker_thread' = 0
    /\ open_ports' =
          IF worker_thread # 0
          THEN Collected(open_ports \ {serial_port},
                         threads[worker_thread].port, threads')
          ELSE open_ports \ {serial_port}
    /\ is_connected' = FALSE
    /\ status_label' = IF why = "error" /\ auto_connect
                       THEN "reconnecting"
                       ELSE "disconnected"
    /\ blocked' = "no"

\* close_serial; why tells which handler called it
close_serial(why) ==
    IF serial_port # 0 /\ serial_port \in open_ports
    THEN \/ port_closed(why)
         \/ \* worker.stop() ran before the new thread's worker.start(): the
            \* loop runs with running = True and wait() does not return
            /\ worker_thread # 0
            /\ threads[worker_thread].st = "starting"
            /\ blocked' = why
            /\ UNCHANGED <<threads, worker_thread, open_ports, is_connected,
                           status_label>>
    ELSE /\ is_connected' = FALSE
         /\ status_label' = IF why = "error" /\ auto_connect
                            THEN "reconnecting"
                            ELSE "disconnected"
         /\ UNCHANGED <<threads, worker_thread, open_ports, blocked>>

\* ---- the operator ----

\* another port is selected in port_combo (enabled while disconnected)
select_port ==
    /\ MainReady
    /\ ~is_connected
    /\ selected_bluetooth' = ~selected_bluetooth
    /\ UNCHANGED <<serial_port, open_ports, is_connected, is_bluetooth,
                   auto_connect, worker_thread, threads, pending_async_open,
                   pending_start_worker, pending_reconnect, pending_errors,
                   blocked, crashed, status_label>>
    /\ UNCHANGED notPageVars

\* the auto_connect box is ticked or cleared
auto_connect_toggled ==
    /\ MainReady
    /\ auto_connect' = ~auto_connect
    /\ UNCHANGED <<serial_port, open_ports, is_connected, is_bluetooth,
                   selected_bluetooth, worker_thread, threads,
                   pending_async_open, pending_start_worker, pending_reconnect,
                   pending_errors, blocked, crashed, status_label>>
    /\ UNCHANGED notPageVars

\* toggle_connection while not is_connected
toggle_connection_open ==
    /\ MainReady
    /\ ~is_connected
    /\ open_serial
    /\ UNCHANGED <<serial_port, open_ports, is_connected, selected_bluetooth,
                   auto_connect, worker_thread, threads, pending_start_worker,
                   pending_reconnect, pending_errors, blocked, crashed, status_label>>
    /\ UNCHANGED notPageVars

\* toggle_connection while is_connected
toggle_connection_close ==
    /\ MainReady
    /\ is_connected
    /\ close_serial("close")
    /\ UNCHANGED <<serial_port, is_bluetooth, selected_bluetooth, auto_connect,
                   pending_async_open, pending_start_worker, pending_reconnect,
                   pending_errors, crashed>>
    /\ UNCHANGED notPageVars

\* ---- timers and queued signals, run by the GUI thread's event loop ----

\* _async_open_serial, posted by open_serial
async_open_serial ==
    /\ MainReady
    /\ pending_async_open > 0
    /\ \/ \* serial.Serial(...) raises: self.serial_port = None
          /\ pending_async_open' = pending_async_open - 1
          /\ serial_port' = 0
          /\ open_ports' = Collected(open_ports, serial_port, threads)
          /\ UNCHANGED <<is_connected, worker_thread, threads,
                         pending_start_worker, crashed, status_label>>
       \/ \* the port opens, Bluetooth: the worker starts 500 ms later
          /\ is_bluetooth
          /\ pending_start_worker < MaxPending
          /\ pending_async_open' = pending_async_open - 1
          /\ \E h \in FreeHandle :
                /\ serial_port' = h
                /\ open_ports' =
                      Collected(open_ports, serial_port, threads) \cup {h}
          /\ is_connected' = TRUE
          /\ status_label' = "connected"
          /\ pending_start_worker' = pending_start_worker + 1
          /\ UNCHANGED <<worker_thread, threads, crashed>>
       \/ \* the port opens, wired: the worker starts now
          /\ ~is_bluetooth
          /\ pending_async_open' = pending_async_open - 1
          /\ \E h \in FreeHandle :
                /\ serial_port' = h
                /\ open_ports' =
                      Collected(open_ports, serial_port, threads) \cup {h}
                /\ start_worker(h)
          /\ is_connected' = TRUE
          /\ status_label' = "connected"
          /\ UNCHANGED <<pending_start_worker, crashed>>
    /\ UNCHANGED <<is_bluetooth, selected_bluetooth, auto_connect,
                   pending_reconnect, pending_errors, blocked>>
    /\ UNCHANGED notPageVars

\* start_worker, posted 500 ms earlier by _async_open_serial
start_worker_timeout ==
    /\ MainReady
    /\ pending_start_worker > 0
    /\ pending_start_worker' = pending_start_worker - 1
    /\ start_worker(serial_port)
    /\ UNCHANGED <<serial_port, open_ports, is_connected, is_bluetooth,
                   selected_bluetooth, auto_connect, pending_async_open,
                   pending_reconnect, pending_errors, blocked, crashed, status_label>>
    /\ UNCHANGED notPageVars

\* start_worker (from either caller) destroys a QThread that still runs and
\* Qt aborts the process
start_worker_abort ==
    /\ MainReady
    /\ OverwritesRunningThread
    /\ \/ pending_start_worker > 0
       \/ pending_async_open > 0 /\ ~is_bluetooth
    /\ Abort
    /\ UNCHANGED notPageVars

\* open_serial, posted 3 s earlier by handle_worker_error
reconnect_timeout ==
    /\ MainReady
    /\ pending_reconnect > 0
    /\ pending_reconnect' = pending_reconnect - 1
    /\ open_serial
    /\ UNCHANGED <<serial_port, open_ports, is_connected, selected_bluetooth,
                   auto_connect, worker_thread, threads, pending_start_worker,
                   pending_errors, blocked, crashed, status_label>>
    /\ UNCHANGED notPageVars

\* handle_worker_error, on a queued error_occurred signal
handle_worker_error ==
    /\ MainReady
    /\ pending_errors > 0
    /\ auto_connect => pending_reconnect < MaxPending
    /\ pending_errors' = pending_errors - 1
    /\ close_serial("error")
    /\ pending_reconnect' =
          IF blocked' = "no" /\ auto_connect
          THEN pending_reconnect + 1
          ELSE pending_reconnect
    /\ UNCHANGED <<serial_port, is_bluetooth, selected_bluetooth, auto_connect,
                   pending_async_open, pending_start_worker, crashed>>
    /\ UNCHANGED notPageVars

\* worker_thread.wait() returns at last: the handler that called close_serial
\* goes on
stop_worker_returns ==
    /\ ~crashed
    /\ blocked # "no"
    /\ threads[worker_thread].st = "idle"
    /\ blocked = "error" /\ auto_connect => pending_reconnect < MaxPending
    /\ port_closed(blocked)
    /\ pending_reconnect' =
          IF blocked = "error" /\ auto_connect
          THEN pending_reconnect + 1
          ELSE pending_reconnect
    /\ UNCHANGED <<serial_port, is_bluetooth, selected_bluetooth, auto_connect,
                   pending_async_open, pending_start_worker, pending_errors,
                   crashed>>
    /\ UNCHANGED notPageVars

\* ---- the worker threads ----

\* SerialWorker.start, on QThread.started: running = True, then read_data,
\* whose loop ends at once when the port is None or closed
worker_start ==
    /\ ~crashed
    /\ \E t \in ThreadIds :
          /\ threads[t].st = "starting"
          /\ threads' =
                [threads EXCEPT ![t].st =
                    IF threads[t].port \in open_ports THEN "polling" ELSE "idle"]
    /\ UNCHANGED <<serial_port, open_ports, is_connected, is_bluetooth,
                   selected_bluetooth, auto_connect, worker_thread,
                   pending_async_open, pending_start_worker, pending_reconnect,
                   pending_errors, blocked, crashed, status_label>>
    /\ UNCHANGED notPageVars

\* read_data: the while condition holds (running, port open); the loop body
\* goes on to in_waiting and read
worker_poll ==
    /\ ~crashed
    /\ \E t \in ThreadIds :
          /\ threads[t].st = "polling"
          /\ threads[t].port \in open_ports
          /\ threads' = [threads EXCEPT ![t].st = "reading"]
    /\ UNCHANGED <<serial_port, open_ports, is_connected, is_bluetooth,
                   selected_bluetooth, auto_connect, worker_thread,
                   pending_async_open, pending_start_worker, pending_reconnect,
                   pending_errors, blocked, crashed, status_label>>
    /\ UNCHANGED notPageVars

\* read_data: in_waiting and read return on an open port, msleep, back to the
\* while condition
worker_read_done ==
    /\ ~crashed
    /\ \E t \in ThreadIds :
          /\ threads[t].st = "reading"
          /\ threads[t].port \in open_ports
          /\ threads' = [threads EXCEPT ![t].st = "polling"]
    /\ UNCHANGED <<serial_port, open_ports, is_connected, is_bluetooth,
                   selected_bluetooth, auto_connect, worker_thread,
                   pending_async_open, pending_start_worker, pending_reconnect,
                   pending_errors, blocked, crashed, status_label>>
    /\ UNCHANGED notPageVars

\* read_data: in_waiting or read raises (always so on a closed handle);
\* error_occurred is emitted, running = False and the loop ends
worker_read_error ==
    /\ ~crashed
    /\ pending_errors < MaxPending
    /\ \E t \in ThreadIds :
          /\ threads[t].st = "reading"
          /\ threads' = [threads EXCEPT ![t].st = "idle"]
    /\ pending_errors' = pending_errors + 1
    /\ UNCHANGED <<serial_port, open_ports, is_connected, is_bluetooth,
                   selected_bluetooth, auto_connect, worker_thread,
                   pending_async_open, pending_start_worker, pending_reconnect,
                   blocked, crashed, status_label>>
    /\ UNCHANGED notPageVars

\* read_data: the loop finds its port closed and ends
worker_loop_exit ==
    /\ ~crashed
    /\ \E t \in ThreadIds :
          /\ threads[t].st = "polling"
          /\ threads[t].port \notin open_ports
          /\ threads' = [threads EXCEPT ![t].st = "idle"]
    /\ UNCHANGED <<serial_port, open_ports, is_connected, is_bluetooth,
                   selected_bluetooth, auto_connect, worker_thread,
                   pending_async_open, pending_start_worker, pending_reconnect,
                   pending_errors, blocked, crashed, status_label>>
    /\ UNCHANGED notPageVars

----------------------------------------------------------------------------
(* Filtering pipeline of the data monitoring page: one channel's rolling   *)
(* history (every channel runs the same statements on its own list).       *)
(* filterImpl selects DataMonitorPage of 03_ModifyCGMPage/01_ReadSerial.py *)
(* or of 01_Learn/05_ReadSerial_14.py.                                     *)

MaxFeeds == 8
WindowSizes == {3, 5, 9}
FeedValues == {1, 5, 9}
Ramp == <<10, 20, 30, 40, 50>>
Zigzag == <<5, 1, 9, 2, 8>>
BufferedFilterTypes == {"NONE", "MOVING_AVG", "MEDIAN"}
FilterImpls == {"01_ReadSerial", "05_ReadSerial_14"}

NoOutput == [type |-> "none", window |-> 0, num |-> 0, den |-> 1]

Min(a, b) == IF a < b THEN a ELSE b

\* sorted(): insertion of one value into an ascending sequence
RECURSIVE InsertSorted(_, _)
InsertSorted(s, v) ==
    IF s = <<>> THEN <<v>>
    ELSE IF v < Head(s) THEN <<v>> \o s
    ELSE <<Head(s)>> \o InsertSorted(Tail(s), v)

RECURSIVE sorted(_)
sorted(s) == IF s = <<>> THEN <<>> ELSE InsertSorted(sorted(Tail(s)), Head(s))

\* the rolling history after the append and the cut to 2 * window_size
MaxBuf(ws) == ws * 2
Appended(buf, ws, raw) ==
    LET b == Append(buf, raw) IN
    IF Len(b) > MaxBuf(ws) THEN Last(b, MaxBuf(ws)) ELSE b

\* the values the two filters look at: buf[-w:], w = min(window_size, len)
FilterWindow(buf, ws) == Last(buf, Min(ws, Len(buf)))

\* sorted(buf[-w:])[len // 2]; Python indexes from 0
MedianOf_LowerMiddle(w) == sorted(w)[((Len(w) - 1) \div 2) + 1]
MedianOf(w) == sorted(w)[(Len(w) \div 2) + 1]

\* the value _apply_filter returns, as the fraction num / den
FilterOutput(ft, ws, buf, raw) ==
    LET w == FilterWindow(buf, ws) IN
    IF ft = "NONE" \/ Len(w) <= 0 THEN [num |-> raw, den |-> 1]
    ELSE IF ft = "MOVING_AVG" THEN [num |-> SumSeq(w), den |-> Len(w)]
    ELSE IF ft = "MEDIAN" THEN [num |-> MedianOf(w), den |-> 1]
    ELSE [num |-> raw, den |-> 1]

\* what the device may send next: any of FeedValues, or the next value of
\* one of the two reference sequences while the history follows it
IsPrefix(h, s) == Len(h) < Len(s) /\ h = Take(s, Len(h))
Continues(h) ==
    (IF IsPrefix(h, Ramp) THEN {Ramp[Len(h) + 1]} ELSE {})
        \cup (IF IsPrefix(h, Zigzag) THEN {Zigzag[Len(h) + 1]} ELSE {})
NextValues(h) ==
    IF \A i \in 1..Len(h) : h[i] \in FeedValues
    THEN FeedValues \cup Continues(h)
    ELSE Continues(h)

FilterInit ==
    /\ filterImpl \in FilterImpls
    /\ filter_type \in (IF filterImpl = "01_ReadSerial" THEN BufferedFilterTypes
                        ELSE {"MOVING_AVG"})
    /\ window_size \in (IF filterImpl = "01_ReadSerial" THEN WindowSizes ELSE {5})
    /\ filter_buffer = <<>>
    /\ raw_history = <<>>
    /\ last_output = NoOutput

FilterIdle ==
    /\ filterImpl = "01_ReadSerial"
    /\ filter_type = "MOVING_AVG"
    /\ window_size = 5
    /\ filter_buffer = <<>>
    /\ raw_history = <<>>
    /\ last_output = NoOutput

\* _apply_filter(key, raw_value), called by _process_single_data
apply_filter ==
    /\ Len(raw_history) < MaxFeeds
    /\ \E raw \in NextValues(raw_history) :
          LET buf == Appended(filter_buffer, window_size, raw)
              out == FilterOutput(filter_type, window_size, buf, raw)
          IN /\ filter_buffer' = buf
             /\ raw_history' = Append(raw_history, raw)
             /\ last_output' = [type |-> filter_type, window |-> window_size,
                                num |-> out.num, den |-> out.den]
    /\ UNCHANGED <<filterImpl, filter_type, window_size>>
    /\ UNCHANGED notFilterVars

\* the history is emptied; raw_history counts from here again
FilterReset ==
    /\ filter_buffer' = <<>>
    /\ raw_history' = <<>>
    /\ last_output' = NoOutput

\* update_filter_config: the filter combo box or the window spin box changed
update_filter_config ==
    /\ \E ft \in BufferedFilterTypes, ws \in WindowSizes :
          /\ ft # filter_type \/ ws # window_size
          /\ filter_type' = ft
          /\ window_size' = ws
          /\ IF filterImpl = "01_ReadSerial" \/ ft # filter_type
             THEN FilterReset
             ELSE UNCHANGED <<filter_buffer, raw_history, last_output>>
    /\ UNCHANGED filterImpl
    /\ UNCHANGED notFilterVars

\* apply_config: the settings page saved the configuration
filter_apply_config ==
    /\ filterImpl = "01_ReadSerial"
    /\ filter_buffer # <<>>
    /\ FilterReset
    /\ UNCHANGED <<filterImpl, filter_type, window_size>>
    /\ UNCHANGED notFilterVars

\* clear_all_data: the operator confirmed "clear all data"
filter_clear_all_data ==
    /\ filter_buffer # <<>>
    /\ FilterReset
    /\ UNCHANGED <<filterImpl, filter_type, window_size>>
    /\ UNCHANGED notFilterVars

----------------------------------------------------------------------------
(* IEEE 754 binary64 arithmetic, as Python's float computes it.            *)
(* A finite double is [s, m, e]: sign s (0 or 1), value m * 2^e, where m   *)
(* is zero or has exactly 53 bits.  m is a natural number written in base  *)
(* 2^15, least significant limb first, without leading zero limbs (TLC's   *)
(* integers have 32 bits).  Every operation computes the exact result and  *)
(* rounds it once to nearest, ties to even.  Overflow, subnormal results,  *)
(* infinities and NaN do not occur for the magnitudes the filter sees.     *)

LimbBits == 15
LimbBase == 32768
MantBits == 53

RECURSIVE Pow2(_)
Pow2(n) == IF n = 0 THEN 1 ELSE 2 * Pow2(n - 1)

\* the value of an expression, computed once
Eval(S) == CHOOSE v \in S : TRUE

RECURSIVE BNorm(_)
BNorm(a) ==
    IF a = <<>> THEN <<>>
    ELSE IF a[Len(a)] = 0 THEN BNorm(SubSeq(a, 1, Len(a) - 1))
    ELSE a

Limb(a, i) == IF i <= Len(a) THEN a[i] ELSE 0

RECURSIVE SmallBitLen(_)
SmallBitLen(n) == IF n = 0 THEN 0 ELSE 1 + SmallBitLen(n \div 2)

BitLen(a) == IF a = <<>> THEN 0 ELSE LimbBits * (Len(a) - 1) + SmallBitLen(a[Len(a)])

RECURSIVE BAddC(_, _, _, _)
BAddC(a, b, i, c) ==
    IF i > Len(a) /\ i > Len(b) THEN (IF c = 0 THEN <<>> ELSE <<c>>)
    ELSE LET x == Limb(a, i) + Limb(b, i) + c
         IN <<x % LimbBase>> \o BAddC(a, b, i + 1, x \div LimbBase)
BAdd(a, b) == BAddC(a, b, 1, 0)

\* a - b for a >= b
RECURSIVE BSubC(_, _, _, _)
BSubC(a, b, i, c) ==
    IF i > Len(a) THEN <<>>
    ELSE LET x == Limb(a, i) - Limb(b, i) - c
         IN IF x < 0 THEN <<x + LimbBase>> \o BSubC(a, b, i + 1, 1)
            ELSE <<x>> \o BSubC(a, b, i + 1, 0)
BSub(a, b) == BNorm(BSubC(a, b, 1, 0))

\* -1, 0, 1 as a < b, a = b, a > b
RECURSIVE BCmpFrom(_, _, _)
BCmpFrom(a, b, i) ==
    IF i = 0 THEN 0
    ELSE IF a[i] < b[i] THEN -1
    ELSE IF a[i] > b[i] THEN 1
    ELSE BCmpFrom(a, b, i - 1)
BCmp(a, b) ==
    IF Len(a) < Len(b) THEN -1
    ELSE IF Len(a) > Len(b) THEN 1
    ELSE BCmpFrom(a, b, Len(a))

\* a * k for 0 <= k < 2^15
RECURSIVE BMulSmallC(_, _, _, _)
BMulSmallC(a, k, i, c) ==
    IF i > Len(a) THEN (IF c = 0 THEN <<>> ELSE <<c>>)
    ELSE LET x == a[i] * k + c
         IN <<x % LimbBase>> \o BMulSmallC(a, k, i + 1, x \div LimbBase)
BMulSmall(a, k) == BNorm(BMulSmallC(a, k, 1, 0))

RECURSIVE BMul(_, _)
BMul(a, b) ==
    IF a = <<>> \/ b = <<>> THEN <<>>
    ELSE LET rest == BMul(a, Tail(b))
         IN BAdd(BMulSmall(a, Head(b)), IF rest = <<>> THEN <<>> ELSE <<0>> \o rest)

Zeros(n) == [i \in 1..n |-> 0]

\* a * 2^n
BShl(a, n) ==
    IF a = <<>> THEN <<>>
    ELSE Zeros(n \div LimbBits) \o BMulSmall(a, Pow2(n % LimbBits))

\* floor(a / 2^n)
BShr(a, n) ==
    LET d == n \div LimbBits
        s == n % LimbBits
        lo == Pow2(s)
        hi == Pow2(LimbBits - s)
    IN IF d >= Len(a) THEN <<>>
       ELSE BNorm([i \in 1..(Len(a) - d) |->
                     (a[i + d] \div lo) + (Limb(a, i + d + 1) % lo) * hi])

\* a mod 2^n
BLowBits(a, n) ==
    LET d == n \div LimbBits
        s == n % LimbBits
    IN IF d >= Len(a) THEN a
       ELSE BNorm(SubSeq(a, 1, d) \o <<a[d + 1] % Pow2(s)>>)

BOdd(a) == a # <<>> /\ a[1] % 2 = 1

FZero == [s |-> 0, m |-> <<>>, e |-> 0]

\* the double nearest to (-1)^s * M * 2^E, ties to even
RoundToDouble(s, M, E) ==
    LET L == BitLen(M) IN
    IF L = 0 THEN FZero
    ELSE IF L <= MantBits
    THEN [s |-> s, m |-> BShl(M, MantBits - L), e |-> E - (MantBits - L)]
    ELSE LET sh == L - MantBits
             q == BShr(M, sh)
             c == BCmp(BLowBits(M, sh), BShl(<<1>>, sh - 1))
             up == c > 0 \/ (c = 0 /\ BOdd(q))
             q1 == IF up THEN BAdd(q, <<1>>) ELSE q
         IN IF BitLen(q1) > MantBits
            THEN [s |-> s, m |-> BShr(q1, 1), e |-> E + sh + 1]
            ELSE [s |-> s, m |-> q1, e |-> E + sh]

FNeg(a) == IF a.m = <<>> THEN a ELSE [a EXCEPT !.s = 1 - a.s]

\* a + b
FAdd(a, b) ==
    IF a.m = <<>> THEN b
    ELSE IF b.m = <<>> THEN a
    ELSE LET e == IF a.e < b.e THEN a.e ELSE b.e
             Ma == BShl(a.m, a.e - e)
             Mb == BShl(b.m, b.e - e)
         IN IF a.s = b.s THEN RoundToDouble(a.s, BAdd(Ma, Mb), e)
            ELSE IF BCmp(Ma, Mb) >= 0 THEN RoundToDouble(a.s, BSub(Ma, Mb), e)
            ELSE RoundToDouble(b.s, BSub(Mb, Ma), e)

FSub(a, b) == FAdd(a, FNeg(b))

FMul(a, b) ==
    IF a.m = <<>> \/ b.m = <<>> THEN FZero
    ELSE RoundToDouble((a.s + b.s) % 2, BMul(a.m, b.m), a.e + b.e)

\* one step of restoring division by d: the next quotient bit joins q
DivStep(st, d) ==
    LET ge == BCmp(st.r, d) >= 0
    IN [r |-> BShl(IF ge THEN BSub(st.r, d) ELSE st.r, 1),
        q |-> BAdd(BShl(st.q, 1), IF ge THEN <<1>> ELSE <<>>)]

\* n steps of it
RECURSIVE DivSteps(_, _, _)
DivSteps(st, d, n) ==
    IF n = 0 THEN st
    ELSE IF n = 1 THEN DivStep(st, d)
    ELSE Eval({ DivSteps(half, d, n - n \div 2) : half \in {DivSteps(st, d, n \div 2)} })

\* the first n bits of a / d for a < 2 * d, and one more bit that is set when
\* the rest is not zero
DivBits(a, d, n) ==
    LET st == Eval({DivSteps([r |-> a, q |-> <<>>], d, n)})
    IN BAdd(BShl(st.q, 1), IF st.r = <<>> THEN <<>> ELSE <<1>>)

QuotientBits == 56

\* a / b for b # 0
FDiv(a, b) ==
    IF a.m = <<>> THEN FZero
    ELSE RoundToDouble((a.s + b.s) % 2, DivBits(a.m, b.m, QuotientBits),
                       a.e - b.e - QuotientBits)

\* a < b
FLess(a, b) == LET d == FSub(a, b) IN d.m # <<>> /\ d.s = 1

----------------------------------------------------------------------------
(* DataMonitorPage.KalmanFilter of one channel, fed a constant input *)

MaxUpdates == 64
KalmanInputs == {100, 37}
\* kalman_Q and kalman_R as decimal fractions: the defaults 0.01 and 0.1, and
\* 0.1 and 0.1 entered in the two line edits
DefaultParams == [Qnum |-> 1, Qden |-> 100, Rnum |-> 1, Rden |-> 10]
KalmanParams == {DefaultParams, [Qnum |-> 1, Qden |-> 10, Rnum |-> 1, Rden |-> 10]}

\* float(n) for an integer 0 <= n < 2^30
IntToDouble(n) == RoundToDouble(0, BNorm(<<n % LimbBase, n \div LimbBase>>), 0)
\* float("num/den" written as a decimal): the double nearest to num / den
DecimalToDouble(num, den) == FDiv(IntToDouble(num), IntToDouble(den))

FOne == IntToDouble(1)
\* KalmanFilter.__init__: self.P = 0.1
InitialP == DecimalToDouble(1, 10)

\* self.x = None
NoEstimate == [s |-> 2, m |-> <<>>, e |-> 0]

KalmanP_NoGain(K, P_pred) == P_pred
KalmanP(K, P_pred) == FMul(FSub(FOne, K), P_pred)

\* KalmanFilter.update(z) after the first observation: the new x and P
KalmanUpdate(x, P, Q, R, z) ==
    LET P_pred == Eval({FAdd(P, Q)})
        K == Eval({FDiv(P_pred, FAdd(P_pred, R))})
    IN [x |-> FAdd(x, FMul(K, FSub(z, x))), P |-> KalmanP(K, P_pred)]

KalmanInit ==
    /\ \E p \in KalmanParams :
          /\ kalman_Q = DecimalToDouble(p.Qnum, p.Qden)
          /\ kalman_R = DecimalToDouble(p.Rnum, p.Rden)
    /\ kalman_z \in KalmanInputs
    /\ kalman_x = NoEstimate
    /\ kalman_P = InitialP
    /\ kalman_prev_P = InitialP
    /\ kalman_updates = 0

KalmanIdle ==
    /\ kalman_Q = DecimalToDouble(DefaultParams.Qnum, DefaultParams.Qden)
    /\ kalman_R = DecimalToDouble(DefaultParams.Rnum, DefaultParams.Rden)
    /\ kalman_z = 100
    /\ kalman_x = NoEstimate
    /\ kalman_P = InitialP
    /\ kalman_prev_P = InitialP
    /\ kalman_updates = 0

\* _apply_filter with filter_type KALMAN: kalman_filters[key].update(raw_value)
kalman_update ==
    /\ kalman_updates < MaxUpdates
    /\ kalman_updates' = kalman_updates + 1
    /\ kalman_prev_P' = kalman_P
    /\ IF kalman_x = NoEstimate
       THEN /\ kalman_x' = IntToDouble(kalman_z)
            /\ kalman_P' = kalman_P
       ELSE LET new == KalmanUpdate(kalman_x, kalman_P, kalman_Q, kalman_R,
                                    IntToDouble(kalman_z))
            IN /\ kalman_x' = new.x
               /\ kalman_P' = new.P
    /\ UNCHANGED <<kalman_Q, kalman_R, kalman_z>>
    /\ UNCHANGED notKalmanVars

\* _init_kalman_filters, from update_kalman_params with valid entries: every
\* channel gets a new KalmanFilter(Q, R)
init_kalman_filters ==
    /\ kalman_updates > 0
    /\ \E p \in KalmanParams :
          /\ kalman_Q' = DecimalToDouble(p.Qnum, p.Qden)
          /\ kalman_R' = DecimalToDouble(p.Rnum, p.Rden)
    /\ kalman_x' = NoEstimate
    /\ kalman_P' = InitialP
    /\ kalman_prev_P' = InitialP
    /\ kalman_updates' = 0
    /\ UNCHANGED kalman_z
    /\ UNCHANGED notKalmanVars

----------------------------------------------------------------------------
(* Saving to CSV: auto_save_data on its timer, manual_save_data, and the   *)
(* files under cfg.save.save_path.  A file name is a sequence of parts, a  *)
(* file is its lines; a line is the header or a row.                       *)

MaxClock == 2                  \* seconds that pass in a run
MaxFailures == 2               \* writes that fail in a run
MaxSavedFrames == 20           \* frames received in a run with saving

\* _get_save_filename: serial_data_<now to the second>.csv
AutoNames ==
    << <<"serial_data_0", ".csv">>, <<"serial_data_1", ".csv">>,
       <<"serial_data_2", ".csv">>, <<"serial_data_3", ".csv">> >>
get_save_filename == AutoNames[clock + 1]

\* what the operator may type in the save dialog
TypedNames == { <<"data">>, <<"data", ".csv">> }
FileNames == {AutoNames[i] : i \in 1..Len(AutoNames)} \cup { <<"data", ".csv">> }

\* if not filename.endswith(".csv"): filename += ".csv"
WithCsv(filename) ==
    IF filename[Len(filename)] = ".csv" THEN filename ELSE Append(filename, ".csv")

\* self.csv_header; the rows have ids from 1
CsvHeader == [id |-> 0, seconds |-> 0]

NoFile == [lines |-> <<>>, opened |-> 0]

\* if os.path.getsize(filename) == 0: writer.writerow(self.csv_header)
NeedsHeader_Always(lines) == TRUE
NeedsHeader(lines) == Len(lines) = 0

\* the file after: open(filename, "a"), header if empty, writer.writerows
Written(file, data_rows) ==
    [lines |-> file.lines
                  \o (IF NeedsHeader(file.lines) THEN <<CsvHeader>> ELSE <<>>)
                  \o data_rows,
     opened |-> file.opened + 1]

\* self.cached_data.clear() after a write that returned True
CacheAfterSave_Kept(cache) == cache
CacheAfterSave(cache) == <<>>

SaveInit ==
    /\ clock = 0
    /\ files = [f \in FileNames |-> NoFile]
    /\ saved_rows = <<>>
    /\ failed_writes = 0

SaveIdle == SaveInit

\* update_data, for runs of at most MaxSavedFrames frames
save_update_data == update_data /\ received' <= MaxSavedFrames

\* datetime.now() reaches the next second
advance_clock ==
    /\ clock < MaxClock
    /\ clock' = clock + 1
    /\ UNCHANGED <<files, saved_rows, failed_writes>>
    /\ UNCHANGED notSaveVars

\* auto_save_data, _write_data_to_csv returns True
auto_save_data ==
    /\ auto_save
    /\ cached_data # <<>>
    /\ files' = [files EXCEPT ![get_save_filename] = Written(@, cached_data)]
    /\ saved_rows' = saved_rows \o cached_data
    /\ cached_data' = CacheAfterSave(cached_data)
    /\ UNCHANGED <<clock, failed_writes>>
    /\ UNCHANGED <<received, userOps, timePat, pending_data, data_table,
                   max_table_rows, auto_save, glucose_time_data,
                   voltage_glucose_data, chart_index, time_glucose_series,
                   volt_glucose_series, ingested_rows>>
    /\ UNCHANGED <<binVars, jsonVars, pageVars, filterVars, kalmanVars, configVars, restVars>>

\* auto_save_data, open raises: _write_data_to_csv warns and returns False
auto_save_data_fails ==
    /\ auto_save
    /\ cached_data # <<>>
    /\ failed_writes < MaxFailures
    /\ failed_writes' = failed_writes + 1
    /\ UNCHANGED <<clock, files, saved_rows>>
    /\ UNCHANGED notSaveVars

\* manual_save_data: the rows of the table go to the file the operator names
\* (the dialog proposes _get_save_filename())
manual_save_data ==
    /\ UserOp
    /\ data_table # <<>>
    /\ \E typed \in TypedNames \cup {get_save_filename} :
          \/ /\ files' = [files EXCEPT ![WithCsv(typed)] = Written(@, data_table)]
             /\ UNCHANGED failed_writes
          \/ /\ failed_writes < MaxFailures
             /\ failed_writes' = failed_writes + 1
             /\ UNCHANGED files
    /\ UNCHANGED <<clock, saved_rows>>
    /\ UNCHANGED <<received, timePat, pending_data, data_table,
                   max_table_rows, auto_save, cached_data, glucose_time_data,
                   voltage_glucose_data, chart_index, time_glucose_series,
                   volt_glucose_series, ingested_rows>>
    /\ UNCHANGED <<binVars, jsonVars, pageVars, filterVars, kalmanVars, configVars, restVars>>

----------------------------------------------------------------------------
(* Loading the configuration: AppConfig.load of 01_Learn/config.py         *)
(* (_merge_inplace, _safe_dataclass_update) and of                         *)
(* 03_ModifyCGMPage/01_ReadSerial.py (_safe_filter_type), and the settings *)
(* page of the latter.  A value of the JSON document, and a field of the   *)
(* configuration, is [t, s, n]: absent, a string s, a number n or a        *)
(* boolean (n = 1 for true).  The values of FilterType are Chinese         *)
(* strings, written here "value:<NAME>".                                   *)

ConfigImpls == {"config.py", "01_ReadSerial"}
FilterTypeNames == {"NONE", "MOVING_AVG", "MEDIAN", "KALMAN"}
ValueOf(name) ==
    CASE name = "NONE" -> "value:NONE"
      [] name = "MOVING_AVG" -> "value:MOVING_AVG"
      [] name = "MEDIAN" -> "value:MEDIAN"
      [] name = "KALMAN" -> "value:KALMAN"

Absent == [t |-> "absent", s |-> "", n |-> 0]
Str(x) == [t |-> "str", s |-> x, n |-> 0]
Num(x) == [t |-> "num", s |-> "", n |-> x]
Flag(b) == [t |-> "bool", s |-> "", n |-> IF b THEN 1 ELSE 0]

\* the documents a run may find on disk: no file, text that is no JSON, JSON
\* that is no object, or an object whose filt section is an object or not
DocKinds == {"missing", "unparseable", "not_object", "object"}
DocFilterTypes ==
    {Absent, Str("value:MEDIAN"), Str("value:KALMAN"), Str("MEDIAN"), Str("NONE"),
     Str("bogus"), Str(""), Str("median"), Num(2)}
DocWindowSizes == {Absent, Num(3), Num(7), Str("7"), Str("abc")}
DocKalmanQs == {Absent, Num(5)}          \* in hundredths: 0.05
DocMaxTableRows == {Absent, Num(500)}
DocSaveIntervals == {Absent, Num(5), Num(250), Str("fast")}
DocAutoSaves == {Absent, Flag(TRUE)}
EmptyDocument(kind) ==
    [kind |-> kind, filt_is_dict |-> TRUE, filter_type |-> Absent,
     window_size |-> Absent, kalman_Q |-> Absent, max_table_rows |-> Absent,
     save_interval_ms |-> Absent, auto_save |-> Absent]
Documents ==
    {EmptyDocument(kind) : kind \in DocKinds \ {"object"}}
    \cup {d \in [kind : {"object"}, filt_is_dict : BOOLEAN,
                 filter_type : DocFilterTypes, window_size : DocWindowSizes,
                 kalman_Q : DocKalmanQs, max_table_rows : DocMaxTableRows,
                 save_interval_ms : DocSaveIntervals, auto_save : DocAutoSaves] :
            ~d.filt_is_dict =>
                /\ d.filter_type = Absent
                /\ d.window_size = Absent
                /\ d.kalman_Q = Absent}

\* AppConfig(): FilterConfig, UIConfig and SaveConfig as the dataclasses
\* default them
DefaultConfig ==
    [filter_type |-> "MOVING_AVG", window_size |-> Num(5), kalman_Q |-> Num(1),
     max_table_rows |-> Num(2000), save_interval_ms |-> Num(1000),
     auto_save |-> Flag(FALSE)]

\* FilterType(ft): the member with that value, or ValueError
IsFilterTypeValue(s) == \E name \in FilterTypeNames : s = ValueOf(name)
FilterTypeOfValue(s) == CHOOSE name \in FilterTypeNames : s = ValueOf(name)

\* what a field of the dataclass holds after base.update(clean): the value of
\* the document as it is, whatever its type, or the current value when the
\* document has none
Patched(field, current) ==
    IF field.t = "absent" THEN current ELSE field

\* config.py, _merge_inplace: the filter_type that goes into the patch
CoercedFilterType_Raises(field, current) ==
    IF field.t = "str" /\ IsFilterTypeValue(field.s)
    THEN FilterTypeOfValue(field.s)
    ELSE "ValueError"
CoercedFilterType(field, current) ==
    IF field.t = "str"
    THEN IF IsFilterTypeValue(field.s) THEN FilterTypeOfValue(field.s) ELSE current
    ELSE IF field.t = "absent" THEN current
    ELSE "not a FilterType"

\* config.py, _safe_dataclass_update(current_obj, patch, cls_type): a patch
\* that is no dict leaves the section; cls_type(**base) checks no types, so
\* every value of a dict patch is taken
FiltUpdate(cur, doc) ==
    IF doc.filt_is_dict
    THEN [window_size |-> Patched(doc.window_size, cur.window_size),
          kalman_Q |-> Patched(doc.kalman_Q, cur.kalman_Q)]
    ELSE [window_size |-> cur.window_size, kalman_Q |-> cur.kalman_Q]

\* config.py, _merge_inplace for filt, save and ui; a coercion that raised
\* would leave the whole object as it was
MergeInplace(cur, doc) ==
    LET ft == IF doc.filt_is_dict
              THEN CoercedFilterType(doc.filter_type, cur.filter_type)
              ELSE cur.filter_type
        filt == FiltUpdate(cur, doc)
    IN
    IF ft = "ValueError" THEN cur
    ELSE [filter_type |-> ft,
          window_size |-> filt.window_size,
          kalman_Q |-> filt.kalman_Q,
          max_table_rows |-> Patched(doc.max_table_rows, cur.max_table_rows),
          save_interval_ms |-> Patched(doc.save_interval_ms, cur.save_interval_ms),
          auto_save |-> Patched(doc.auto_save, cur.auto_save)]

\* config.py, AppConfig.load: defaults unless the file holds a JSON object
LoadConfigPy(doc) ==
    IF doc.kind = "object" THEN MergeInplace(DefaultConfig, doc) ELSE DefaultConfig

\* 01_ReadSerial.py, _safe_filter_type(v, default): the member whose value or
\* name v is, else default
safe_filter_type(v, default) ==
    IF v.t = "str" /\ IsFilterTypeValue(v.s) THEN FilterTypeOfValue(v.s)
    ELSE IF v.t = "str" /\ v.s \in FilterTypeNames THEN v.s
    ELSE default

\* int(x) and float(x) of a JSON value: a number or boolean converts, a string
\* converts when it spells a number, anything else raises
NumericStrings == {"7"}
NumberSpelled(s) == CASE s = "7" -> 7
Converts(field) ==
    \/ field.t \in {"num", "bool"}
    \/ field.t = "str" /\ field.s \in NumericStrings
Converted(field) ==
    IF field.t = "str" THEN Num(NumberSpelled(field.s)) ELSE Num(field.n)
\* bool(x)
Truthy(field) ==
    \/ field.t \in {"num", "bool"} /\ field.n # 0
    \/ field.t = "str" /\ field.s # ""

\* 01_ReadSerial.py, AppConfig.load: only json.loads sits in the try; raw.get
\* and flt.get need objects, int() and float() need convertible values
LoadRaises(doc) ==
    \/ doc.kind = "not_object"
    \/ /\ doc.kind = "object"
       /\ \/ ~doc.filt_is_dict
          \/ \E f \in {doc.max_table_rows, doc.window_size, doc.kalman_Q,
                       doc.save_interval_ms} :
                f.t # "absent" /\ ~Converts(f)

\* 01_ReadSerial.py, AppConfig.load: flt.get(key, default) and int() / float()
\* / bool() of the value
Got(field, current) ==
    IF field.t = "absent" THEN current ELSE Converted(field)
LoadReadSerial(cur, doc) ==
    [filter_type |-> safe_filter_type(doc.filter_type, cur.filter_type),
     window_size |-> Got(doc.window_size, cur.window_size),
     kalman_Q |-> Got(doc.kalman_Q, cur.kalman_Q),
     max_table_rows |-> Got(doc.max_table_rows, cur.max_table_rows),
     save_interval_ms |-> Got(doc.save_interval_ms, cur.save_interval_ms),
     auto_save |-> IF doc.auto_save.t = "absent" THEN cur.auto_save
                   ELSE Flag(Truthy(doc.auto_save))]

\* save_to: asdict, the filter type written as its value
Saved(c) ==
    [kind |-> "object", filt_is_dict |-> TRUE,
     filter_type |-> Str(ValueOf(c.filter_type)), window_size |-> c.window_size,
     kalman_Q |-> c.kalman_Q, max_table_rows |-> c.max_table_rows,
     save_interval_ms |-> c.save_interval_ms, auto_save |-> c.auto_save]

\* DataMonitorPage.apply_config: the period of auto_save_timer, 0 when stopped
TimerPeriod(c) == IF c.auto_save.n = 1 THEN c.save_interval_ms.n ELSE 0

\* SettingsPage._on_ui_changed: the interval read from the line edit
IntervalTexts == {"50", "250", "abc"}
MinInterval == 100
FallbackInterval == 1000
TextNumber(text) == CASE text = "50" -> 50 [] text = "250" -> 250
IntervalOf(text) ==
    IF text = "abc" THEN FallbackInterval
    ELSE IF TextNumber(text) < MinInterval THEN MinInterval ELSE TextNumber(text)

ConfigInit ==
    /\ configImpl \in ConfigImpls
    /\ document \in Documents
    /\ cfg = DefaultConfig
    /\ config_loaded = FALSE
    /\ config_raised = FALSE
    /\ timer_interval = 0

ConfigIdle ==
    /\ configImpl = "01_ReadSerial"
    /\ document = EmptyDocument("missing")
    /\ cfg = DefaultConfig
    /\ config_loaded = FALSE
    /\ config_raised = FALSE
    /\ timer_interval = 0

\* AppConfig.load() at start-up; in 01_ReadSerial.py MainWindow.__init__ goes on
\* to DataMonitorPage.apply_config, and an exception of load ends the start
config_load ==
    /\ ~config_loaded /\ ~config_raised
    /\ IF configImpl = "config.py"
       THEN /\ cfg' = LoadConfigPy(document)
            /\ config_loaded' = TRUE
            /\ UNCHANGED <<document, config_raised, timer_interval>>
       ELSE IF LoadRaises(document)
       THEN /\ config_raised' = TRUE
            /\ UNCHANGED <<document, cfg, config_loaded, timer_interval>>
       ELSE IF document.kind \in {"missing", "unparseable"}
       THEN /\ cfg' = DefaultConfig
            /\ document' = Saved(DefaultConfig)
            /\ config_loaded' = TRUE
            /\ timer_interval' = TimerPeriod(DefaultConfig)
            /\ UNCHANGED config_raised
       ELSE /\ cfg' = LoadReadSerial(DefaultConfig, document)
            /\ config_loaded' = TRUE
            /\ timer_interval' = TimerPeriod(cfg')
            /\ UNCHANGED <<document, config_raised>>
    /\ UNCHANGED configImpl
    /\ UNCHANGED notConfigVars

\* config.py: cfg.save_to(), then the next start of the program
config_save_to ==
    /\ config_loaded
    /\ configImpl = "config.py"
    /\ cfg.filter_type \in FilterTypeNames
    /\ document' = Saved(cfg)
    /\ document' # document
    /\ config_loaded' = FALSE
    /\ cfg' = DefaultConfig
    /\ UNCHANGED <<configImpl, config_raised, timer_interval>>
    /\ UNCHANGED notConfigVars

\* 01_ReadSerial.py: SettingsPage._on_ui_changed with the check box and the line
\* edit as the operator left them, then MainWindow.on_config_changed: save_to
\* and DataMonitorPage.apply_config
on_ui_changed ==
    /\ config_loaded
    /\ configImpl = "01_ReadSerial"
    /\ \E checked \in BOOLEAN, text \in IntervalTexts :
          /\ cfg' = [cfg EXCEPT !.auto_save = Flag(checked),
                                !.save_interval_ms = Num(IntervalOf(text))]
          /\ cfg' # cfg
    /\ document' = Saved(cfg')
    /\ timer_interval' = TimerPeriod(cfg')
    /\ UNCHANGED <<configImpl, config_loaded, config_raised>>
    /\ UNCHANGED notConfigVars

\* 01_ReadSerial.py: SettingsPage.reset_to_default, then on_config_changed
reset_to_default ==
    /\ config_loaded
    /\ configImpl = "01_ReadSerial"
    /\ cfg' = [cfg EXCEPT !.auto_save = DefaultConfig.auto_save,
                          !.save_interval_ms = DefaultConfig.save_interval_ms]
    /\ cfg' # cfg
    /\ document' = Saved(cfg')
    /\ timer_interval' = TimerPeriod(cfg')
    /\ UNCHANGED <<configImpl, config_loaded, config_raised>>
    /\ UNCHANGED notConfigVars

\* 01_ReadSerial.py: the program is closed and started again
config_restart ==
    /\ config_loaded
    /\ configImpl = "01_ReadSerial"
    /\ config_loaded' = FALSE
    /\ cfg' = DefaultConfig
    /\ timer_interval' = 0
    /\ UNCHANGED <<configImpl, document, config_raised>>
    /\ UNCHANGED notConfigVars

----------------------------------------------------------------------------
(* CV cycles: DataMonitorPage._build_cv_cycles of 01_Learn/05_ReadSerial_14.py. *)
(* Voltages are in millivolts; a point is [v, g] as in the code, with k,    *)
(* its index in voltage_glucose_data, carried along to tell apart two       *)
(* points of equal voltage and current.                                     *)

dv_threshold == 2           \* 0.002 V
min_points == 10

\* the sweeps fed: from 0 up to tops * step and back down, the glucose current
\* following one of three patterns; and two such sweeps one after the other
SweepTops == {3, 9, 10, 12}
SweepSteps == {100, 1}
GlucosePatterns == {"constant", "index", "voltage"}
Abs(x) == IF x < 0 THEN -x ELSE x
SweepVoltage(top, step, k) == step * (top - Abs(top + 1 - k))
GlucoseAt(pattern, v, k) ==
    CASE pattern = "constant" -> 7
      [] pattern = "index" -> k
      [] pattern = "voltage" -> 0 - v
Sweep(top, step, pattern) ==
    [k \in 1..(2 * top + 1) |->
        [v |-> SweepVoltage(top, step, k),
         g |-> GlucoseAt(pattern, SweepVoltage(top, step, k), k),
         k |-> k]]
Reindexed(data, offset) ==
    [k \in 1..Len(data) |-> [data[k] EXCEPT !.k = k + offset]]
TwoSweeps(top, step, pattern) ==
    Sweep(top, step, pattern)
        \o Reindexed(Tail(Sweep(top, step, pattern)), 2 * top + 1)
\* three runs of 0.1 V steps, up, down and up again, the runs long enough to
\* be kept as a cycle or too short; one step of the first run may be a jitter
\* of 1 mV the other way
RunLengths == {3, 11}
LastRunLengths == {0, 11}
JitterAt == {0, 2, 5}
RunDeltas(up, down, again, jitter) ==
    [n \in 1..(up + down + again) |->
        IF n = jitter THEN -1
        ELSE IF n <= up \/ n > up + down THEN 100 ELSE -100]
RECURSIVE SumTo(_, _)
SumTo(ds, n) == IF n = 0 THEN 0 ELSE ds[n] + SumTo(ds, n - 1)
FromDeltas(ds) ==
    [n \in 1..(Len(ds) + 1) |-> [v |-> SumTo(ds, n - 1), g |-> 7, k |-> n]]
JitterInputs ==
    {FromDeltas(RunDeltas(up, down, again, jitter)) :
        up \in RunLengths, down \in RunLengths, again \in LastRunLengths,
        jitter \in JitterAt}
CvInputs ==
    {Sweep(top, step, pattern) :
        top \in SweepTops, step \in SweepSteps, pattern \in GlucosePatterns}
    \cup {TwoSweeps(10, 100, pattern) : pattern \in GlucosePatterns}
    \cup {<<>>, <<[v |-> 0, g |-> 7, k |-> 1]>>}
    \cup JitterInputs

\* step_dir = 1 if dv > 0 else -1
StepDir_AlwaysUp(dv) == 1
StepDir(dv) == IF dv > 0 THEN 1 ELSE -1

\* if len(current_cycle) >= min_points: cycles.append(current_cycle)
WithCycle(cs, cycle) == IF Len(cycle) >= min_points THEN Append(cs, cycle) ELSE cs

CvInit ==
    /\ cv_data \in CvInputs
    /\ cv_pc = "call"
    /\ cv_i = 0
    /\ cv_prev = 0
    /\ current_cycle = <<>>
    /\ current_dir = 0
    /\ cycles = <<>>

CvIdle ==
    /\ cv_data = <<>>
    /\ cv_pc = "call"
    /\ cv_i = 0
    /\ cv_prev = 0
    /\ current_cycle = <<>>
    /\ current_dir = 0
    /\ cycles = <<>>

\* the call: fewer than two points return no cycle, else the first point opens
\* the first cycle with no direction yet (current_dir 0 stands for None)
build_cv_cycles_call ==
    /\ cv_pc = "call"
    /\ IF Len(cv_data) < 2
       THEN /\ cv_pc' = "returned"
            /\ UNCHANGED <<cv_i, cv_prev, current_cycle, current_dir, cycles>>
       ELSE /\ cv_pc' = "loop"
            /\ cv_i' = 2
            /\ cv_prev' = 1
            /\ current_cycle' = <<cv_data[1]>>
            /\ UNCHANGED <<current_dir, cycles>>
    /\ UNCHANGED cv_data
    /\ UNCHANGED notCvVars

\* one pass of "for i in range(1, len(data))"
build_cv_cycles_step ==
    /\ cv_pc = "loop"
    /\ cv_i <= Len(cv_data)
    /\ LET point == cv_data[cv_i]
           prev == cv_data[cv_prev]
           dv == point.v - prev.v
       IN
       IF Abs(dv) < dv_threshold
       THEN /\ current_cycle' = Append(current_cycle, point)
            /\ UNCHANGED <<current_dir, cycles>>
       ELSE IF current_dir = 0 \/ StepDir(dv) = current_dir
       THEN /\ current_dir' = StepDir(dv)
            /\ current_cycle' = Append(current_cycle, point)
            /\ UNCHANGED cycles
       ELSE /\ cycles' = WithCycle(cycles, current_cycle)
            /\ current_cycle' = <<prev, point>>
            /\ current_dir' = StepDir(dv)
    /\ cv_prev' = cv_i
    /\ cv_i' = cv_i + 1
    /\ UNCHANGED <<cv_data, cv_pc>>
    /\ UNCHANGED notCvVars

\* after the loop: the last cycle, and return cycles
build_cv_cycles_return ==
    /\ cv_pc = "loop"
    /\ cv_i > Len(cv_data)
    /\ cycles' = WithCycle(cycles, current_cycle)
    /\ cv_pc' = "returned"
    /\ UNCHANGED <<cv_data, cv_i, cv_prev, current_cycle, current_dir>>
    /\ UNCHANGED notCvVars

----------------------------------------------------------------------------
(* Parsing a decoded frame: parse_frame / frame_to_engineering of           *)
(* 03_ModifyCGMPage/01_ReadSerial.py, fed by process_binary_buffer or by    *)
(* the JSON path.  A value of the mapping is [t, s, n] as in the            *)
(* configuration document; a float the binary path computed is kept        *)
(* unreduced as [t |-> "float", s |-> its formula, n |-> its operand].  A   *)
(* time in seconds is the exact [whole, nano]: whole seconds and            *)
(* nanoseconds.                                                             *)

ProtoModes == {"binary", "json"}

\* ProtocolConfig: the alias lists, in the order they are tried
time_keys == <<"t", "time", "sec", "seconds", "timestamp">>
voltage_keys == <<"voltage", "V", "v">>
uric_keys == <<"uric", "uric_uA", "UA", "uA_uric">>
ascorbic_keys == <<"ascorbic", "ascorbic_uA", "AA", "uA_ascorbic">>
glucose_keys == <<"glucose", "glucose_mA", "GLU", "mA_glucose">>

\* the names a device may give the five fields of a frame: the canonical
\* names of the wire format, the first alias of each list, the last alias of
\* each list
Namings == {"canonical", "first_alias", "last_alias"}
KeysOf(naming) ==
    CASE naming = "canonical" ->
            [time |-> "Ms", voltage |-> "Code12", uric |-> "Uric",
             ascorbic |-> "Ascorbic", glucose |-> "Glucose"]
      [] naming = "first_alias" ->
            [time |-> time_keys[1], voltage |-> voltage_keys[1], uric |-> uric_keys[1],
             ascorbic |-> ascorbic_keys[1], glucose |-> glucose_keys[1]]
      [] naming = "last_alias" ->
            [time |-> time_keys[Len(time_keys)],
             voltage |-> voltage_keys[Len(voltage_keys)],
             uric |-> uric_keys[Len(uric_keys)],
             ascorbic |-> ascorbic_keys[Len(ascorbic_keys)],
             glucose |-> glucose_keys[Len(glucose_keys)]]

\* device timestamps in ms, around the 1e4 of the "auto" time unit
MsTicks ==
    {0, 999, 1000, 10000, 10001, 9999999, 10000000, 10000001}
\* what a JSON frame may hold for a field
FrameUrics == {Num(5), Str("7"), Str("abc"), Absent}
FrameVoltages == {Num(2), Absent}
FrameCurrents == {Num(9)}
\* ADC readings of a binary frame
FrameCodes == {0, 4095}

\* a JSON object with the given names for the given values; a field the
\* device left out is no key of the mapping
FieldsPresent(values) == {f \in DOMAIN values : values[f].t # "absent"}
Named(naming, values) ==
    [k \in {KeysOf(naming)[f] : f \in FieldsPresent(values)} |->
        values[CHOOSE f \in FieldsPresent(values) : KeysOf(naming)[f] = k]]

\* process_binary_buffer: data_dict of an unpacked frame
Float(formula, operand) == [t |-> "float", s |-> formula, n |-> operand]
BinaryDict(ms, code12, uric, ascorbic, glucose) ==
    [t |-> Float("ms / 1000.0", ms),
     voltage |-> Float("(code12 / 4095.0) * 3.3", code12),
     uric |-> Num(uric), ascorbic |-> Num(ascorbic), glucose |-> Num(glucose),
     receive_time |-> Str("%H:%M:%S")]

\* _pick_first_key(d, keys): the value of the first key of keys that d has,
\* None (Absent) when it has none of them
PickFirstKey(d, keys) ==
    LET hits == {i \in 1..Len(keys) : keys[i] \in DOMAIN d} IN
    IF hits = {} THEN Absent
    ELSE d[keys[CHOOSE i \in hits : \A j \in hits : i <= j]]

\* _to_float(x, 0.0): float(x), or 0.0 for None and for what float() rejects
to_float(x) ==
    IF x.t = "float" THEN x
    ELSE IF x.t # "absent" /\ Converts(x) THEN Converted(x)
    ELSE Num(0)

\* exact seconds
Seconds(whole, nano) == [whole |-> whole, nano |-> nano]
SecondsOf(x) ==
    IF x.t = "float" THEN Seconds(x.n \div 1000, (x.n % 1000) * 1000000)
    ELSE Seconds(x.n, 0)
DividedBy1000(sec) ==
    Seconds(sec.whole \div 1000, (sec.whole % 1000) * 1000000 + sec.nano \div 1000)
Exceeds(sec, whole) == sec.whole > whole \/ (sec.whole = whole /\ sec.nano > 0)
NotAfter(a, b) == a.whole < b.whole \/ (a.whole = b.whole /\ a.nano <= b.nano)

\* parse_frame, time_unit "auto": more than 1e4 is taken for milliseconds
AutoThreshold == 10000
AutoSeconds(t) == IF Exceeds(t, AutoThreshold) THEN DividedBy1000(t) ELSE t

\* parse_frame(data, cfg) with the default ProtocolConfig
ParseFrame(data) ==
    [t |-> AutoSeconds(SecondsOf(to_float(PickFirstKey(data, time_keys)))),
     voltage |-> to_float(PickFirstKey(data, voltage_keys)),
     uric |-> to_float(PickFirstKey(data, uric_keys)),
     ascorbic |-> to_float(PickFirstKey(data, ascorbic_keys)),
     glucose |-> to_float(PickFirstKey(data, glucose_keys))]

NoFrame == [t |-> Seconds(0, 0), voltage |-> Num(0), uric |-> Num(0),
            ascorbic |-> Num(0), glucose |-> Num(0)]
NoValues == [time |-> Absent, voltage |-> Absent, uric |-> Absent,
             ascorbic |-> Absent, glucose |-> Absent]

ParseInit ==
    /\ proto_mode \in ProtoModes
    /\ field_naming \in Namings
    /\ proto_mode = "binary" => field_naming = "first_alias"
    /\ device_ms = 0
    /\ frame_values = NoValues
    /\ parsed = NoFrame
    /\ prev_parsed = NoFrame
    /\ samples = 0

ParseIdle ==
    /\ proto_mode = "binary"
    /\ field_naming = "first_alias"
    /\ device_ms = 0
    /\ frame_values = NoValues
    /\ parsed = NoFrame
    /\ prev_parsed = NoFrame
    /\ samples = 0

\* a binary frame of the device, its clock not running backwards, through
\* process_binary_buffer and _process_single_data's parse_frame
binary_frame_parsed ==
    /\ proto_mode = "binary"
    /\ samples < MaxSamples
    /\ \E ms \in MsTicks, code12 \in FrameCodes :
          /\ ms >= device_ms
          /\ device_ms' = ms
          /\ frame_values' = [time |-> Num(ms), voltage |-> Num(code12), uric |-> Num(5),
                              ascorbic |-> Num(3), glucose |-> Num(9)]
          /\ parsed' = ParseFrame(BinaryDict(ms, code12, 5, 3, 9))
    /\ prev_parsed' = parsed
    /\ samples' = samples + 1
    /\ UNCHANGED <<proto_mode, field_naming>>
    /\ UNCHANGED notParseVars

\* a JSON object of the device, its clock not running backwards, through
\* _process_single_data's parse_frame
json_frame_parsed ==
    /\ proto_mode = "json"
    /\ samples < MaxSamples
    /\ \E ms \in MsTicks, v \in FrameVoltages, u \in FrameUrics, g \in FrameCurrents :
          /\ ms >= device_ms
          /\ device_ms' = ms
          /\ LET values == [time |-> Num(ms), voltage |-> v, uric |-> u,
                         ascorbic |-> Num(3), glucose |-> g]
             IN /\ frame_values' = values
                /\ parsed' = ParseFrame(Named(field_naming, values))
    /\ prev_parsed' = parsed
    /\ samples' = samples + 1
    /\ UNCHANGED <<proto_mode, field_naming>>
    /\ UNCHANGED notParseVars

----------------------------------------------------------------------------
(* DPV waveform: generate_dpv_voltage_array of                              *)
(* 01_Learn/MyFunction/02_DPV_Generate.py, for integer parameters (mV, ms,  *)
(* Hz).  voltage_array is a numpy float32 array: a value stored in it is    *)
(* rounded to 24 significant bits.                                          *)

\* the parameters fed: sweeps up, down, of one step, and near 2^24 mV where
\* float32 no longer holds every integer; pulses shorter and longer than the
\* period
DpvSweeps ==
    {[start |-> 0, end |-> 5], [start |-> 6, end |-> 0], [start |-> 3, end |-> 3],
     [start |-> 16777214, end |-> 16777218]}
DpvSteps == {1, 2}
DpvAmplitudes == {1, 50}
DpvWidths == {1, 3}
DpvPeriods == {2, 4}
DpvRates == {500, 1000}
DpvParams ==
    [sweep : DpvSweeps, step_voltage : DpvSteps, pulse_amplitude : DpvAmplitudes,
     pulse_width : DpvWidths, pulse_period : DpvPeriods, sample_rate : DpvRates]

\* total_steps = int(abs(end_voltage - start_voltage) / step_voltage) + 1
TotalSteps(start, end, step) == (Abs(end - start) \div step) + 1
\* samples_per_pulse = int(pulse_period * sample_rate / 1000), and
\* pulse_samples likewise from pulse_width
SamplesOf(ms, rate) == (ms * rate) \div 1000

\* base_voltage of a step (from 0), rising or falling with the sweep
BaseVoltage_Ascending(p, step) == p.sweep.start + step * p.step_voltage
BaseVoltage(p, step) ==
    IF p.sweep.start > p.sweep.end
    THEN p.sweep.start - step * p.step_voltage
    ELSE p.sweep.start + step * p.step_voltage

\* a non-negative integer as float32 stores it: as it is below 2^24, else
\* rounded to a multiple of its unit in the last place, ties to even
Float32Limit == 16777216
RECURSIVE Float32Ulp(_, _)
Float32Ulp(v, ulp) ==
    IF v \div ulp < Float32Limit THEN ulp ELSE Float32Ulp(v, 2 * ulp)
Float32(v) ==
    LET ulp == Float32Ulp(v, 1)
        q == v \div ulp
        r == v % ulp
    IN IF 2 * r > ulp \/ (2 * r = ulp /\ q % 2 = 1) THEN (q + 1) * ulp ELSE q * ulp

\* the samples of one period: the pulse on those from
\* samples_per_pulse - pulse_samples on
PeriodSamples(p, step) ==
    LET samples_per_pulse == SamplesOf(p.pulse_period, p.sample_rate)
        pulse_samples == SamplesOf(p.pulse_width, p.sample_rate)
    IN [i \in 1..samples_per_pulse |->
           IF i - 1 >= samples_per_pulse - pulse_samples
           THEN Float32(BaseVoltage(p, step) + p.pulse_amplitude)
           ELSE Float32(BaseVoltage(p, step))]

\* voltage_array with the period of the given step filled in
WithPeriod(array, p, step) ==
    LET samples_per_pulse == SamplesOf(p.pulse_period, p.sample_rate) IN
    [i \in 1..Len(array) |->
        IF (i - 1) \div samples_per_pulse = step
        THEN PeriodSamples(p, step)[((i - 1) % samples_per_pulse) + 1]
        ELSE array[i]]

DpvInit ==
    /\ dpv_params \in DpvParams
    /\ dpv_pc = "call"
    /\ dpv_step = 0
    /\ voltage_array = <<>>

DpvIdle ==
    /\ dpv_params = [sweep |-> [start |-> 0, end |-> 5], step_voltage |-> 1,
                     pulse_amplitude |-> 50, pulse_width |-> 1, pulse_period |-> 2,
                     sample_rate |-> 1000]
    /\ dpv_pc = "call"
    /\ dpv_step = 0
    /\ voltage_array = <<>>

\* the call: np.zeros(total_samples)
dpv_call ==
    /\ dpv_pc = "call"
    /\ dpv_pc' = "fill"
    /\ voltage_array' =
          [i \in 1..(TotalSteps(dpv_params.sweep.start, dpv_params.sweep.end,
                                dpv_params.step_voltage)
                     * SamplesOf(dpv_params.pulse_period, dpv_params.sample_rate)) |-> 0]
    /\ UNCHANGED <<dpv_params, dpv_step>>
    /\ UNCHANGED notDpvVars

\* one pass of "for step in range(total_steps)"
dpv_fill_period ==
    /\ dpv_pc = "fill"
    /\ dpv_step < TotalSteps(dpv_params.sweep.start, dpv_params.sweep.end,
                             dpv_params.step_voltage)
    /\ voltage_array' = WithPeriod(voltage_array, dpv_params, dpv_step)
    /\ dpv_step' = dpv_step + 1
    /\ UNCHANGED <<dpv_params, dpv_pc>>
    /\ UNCHANGED notDpvVars

\* after the loop: voltage_array is returned
dpv_return ==
    /\ dpv_pc = "fill"
    /\ dpv_step = TotalSteps(dpv_params.sweep.start, dpv_params.sweep.end,
                             dpv_params.step_voltage)
    /\ dpv_pc' = "returned"
    /\ UNCHANGED <<dpv_params, dpv_step, voltage_array>>
    /\ UNCHANGED notDpvVars

----------------------------------------------------------------------------
(* Receive path of the serial page: SerialPage.handle_data of               *)
(* 03_ModifyCGMPage/01_ReadSerial.py and of 01_Learn/05_ReadSerial_14.py,   *)
(* with the two receive-panel options.  A chunk is a sequence of bytes      *)
(* (numbers); the JSON buffer holds characters (one-character strings).     *)

RxImpls == {"01_ReadSerial", "05_ReadSerial_14"}
MaxRx == 3             \* chunks received
MaxOpens == 2          \* ports opened

\* the characters of the chunks by their ASCII codes; any other character
\* below 128 matters to the scans only as being no brace, quote or
\* backslash and is written "n"
CharOf(b) ==
    CASE b = 123 -> LB
      [] b = 125 -> RB
      [] b = 34 -> QT
      [] b = 92 -> BS
      [] b = 58 -> ":"
      [] b = 98 -> "b"
      [] b = 50 -> "2"
      [] OTHER -> "n"
\* data.decode(errors='ignore') / the characters that data.decode(
\* errors='replace') hands to the JSON buffer of 05_ReadSerial_14, which
\* differ only in U+FFFD standing where a byte was dropped: ASCII bytes are
\* their characters; the only other byte of the chunks, 0xA5, is a
\* continuation byte without a lead byte
RECURSIVE DecodeBytes(_, _)
DecodeBytes(rxi, data) ==
    IF data = <<>> THEN <<>>
    ELSE (IF Head(data) < 128 THEN <<CharOf(Head(data))>>
          ELSE IF rxi = "05_ReadSerial_14" THEN <<"n">>
          ELSE <<>>) \o DecodeBytes(rxi, Tail(data))

\* 05_ReadSerial_14's process_json_buffer: from the first "{" to the first
\* "}" after it, again and again
RECURSIVE process_json_buffer_14(_, _)
process_json_buffer_14(buf, out) ==
    LET start_idx == Find(buf, LB) IN
    IF start_idx = 0 THEN [buf |-> <<>>, out |-> out]
    ELSE LET rest == Drop(buf, start_idx - 1)
             end_idx == Find(rest, RB)
         IN  IF end_idx = 0 THEN [buf |-> rest, out |-> out]
             ELSE LET json_str == Take(rest, end_idx)
                  IN  process_json_buffer_14(Drop(rest, end_idx),
                                             IF JsonLoadsOk(json_str)
                                             THEN Append(out, json_str)
                                             ELSE out)

\* 01_ReadSerial's process_binary_buffer: the whole while loop
RECURSIVE process_binary_buffer(_, _)
process_binary_buffer(buf, out) ==
    IF ~LoopCond(buf) THEN [buf |-> buf, out |-> out]
    ELSE IF buf[1] # HEAD THEN process_binary_buffer(Tail(buf), out)
    ELSE IF buf[FRAME_LEN] # TAIL THEN process_binary_buffer(Tail(buf), out)
    ELSE IF ChecksumOk(Take(buf, FRAME_LEN))
         THEN process_binary_buffer(
                  ConsumeFrame(buf),
                  Append(out, DecodedData("SerialPage", SubSeq(buf, 2, 13))))
    ELSE process_binary_buffer(Tail(buf), out)

\* the chunks received: the object {"b":2} whole and in two halves, and a
\* binary frame
RxObject == <<123, 34, 98, 34, 58, 50, 125>>
RxRaw == [ms |-> 1, uric |-> 5, ascorbic |-> 3, glucose |-> 9, code12 |-> 2]
RxChunks == {RxObject, Take(RxObject, 4), Drop(RxObject, 4), PackFrame(RxRaw)}

NoCall == [data |-> <<>>, hex |-> FALSE, binary |-> FALSE,
           json_buffer |-> <<>>, binary_buffer |-> <<>>, data_received |-> <<>>]

\* SerialPage.__init__: empty buffers, both options unchecked
RxInit ==
    /\ rxImpl \in RxImpls
    /\ hex_receive_check = FALSE
    /\ binary_mode_check = FALSE
    /\ rx_json_buffer = <<>>
    /\ rx_binary_buffer = <<>>
    /\ data_received = <<>>
    /\ receive_text = <<>>
    /\ rx_last = NoCall
    /\ rx_is_connected = FALSE
    /\ rx_opens = 0

RxIdle ==
    /\ rxImpl = "01_ReadSerial"
    /\ hex_receive_check = FALSE
    /\ binary_mode_check = FALSE
    /\ rx_json_buffer = <<>>
    /\ rx_binary_buffer = <<>>
    /\ data_received = <<>>
    /\ receive_text = <<>>
    /\ rx_last = NoCall
    /\ rx_is_connected = FALSE
    /\ rx_opens = 0

\* the operator ticks or unticks "Hex display"
toggle_hex_receive_check ==
    /\ hex_receive_check' = ~hex_receive_check
    /\ UNCHANGED <<rxImpl, binary_mode_check, rx_json_buffer, rx_binary_buffer,
                   data_received, receive_text, rx_last, rx_is_connected, rx_opens>>
    /\ UNCHANGED notRxVars

\* the operator ticks or unticks "binary protocol" (01_ReadSerial only)
toggle_binary_mode_check ==
    /\ rxImpl = "01_ReadSerial"
    /\ binary_mode_check' = ~binary_mode_check
    /\ UNCHANGED <<rxImpl, hex_receive_check, rx_json_buffer, rx_binary_buffer,
                   data_received, receive_text, rx_last, rx_is_connected, rx_opens>>
    /\ UNCHANGED notRxVars

\* handle_data(data): the chunk is shown, then decoded on the binary path, or
\* on the JSON path when "Hex display" is not ticked
handle_data ==
    /\ rx_is_connected
    /\ Len(receive_text) < MaxRx
    /\ \E data \in RxChunks :
          LET shown == IF hex_receive_check \/ binary_mode_check THEN "hex" ELSE "text"
              text == DecodeBytes(rxImpl, data)
              bin == process_binary_buffer(rx_binary_buffer \o data, data_received)
              js == IF rxImpl = "01_ReadSerial"
                    THEN process_json_buffer(rx_json_buffer \o text, data_received)
                    ELSE process_json_buffer_14(rx_json_buffer \o text, data_received)
          IN  /\ receive_text' = Append(receive_text, shown)
              /\ rx_last' = [data |-> data, hex |-> hex_receive_check,
                             binary |-> binary_mode_check,
                             json_buffer |-> rx_json_buffer,
                             binary_buffer |-> rx_binary_buffer,
                             data_received |-> data_received]
              /\ IF binary_mode_check
                 THEN /\ rx_binary_buffer' = bin.buf
                      /\ data_received' = bin.out
                      /\ UNCHANGED rx_json_buffer
                 ELSE IF ~hex_receive_check
                 THEN /\ rx_json_buffer' = js.buf
                      /\ data_received' = js.out
                      /\ UNCHANGED rx_binary_buffer
                 ELSE UNCHANGED <<rx_json_buffer, rx_binary_buffer, data_received>>
    /\ UNCHANGED <<rxImpl, hex_receive_check, binary_mode_check,
                   rx_is_connected, rx_opens>>
    /\ UNCHANGED notRxVars

\* _async_open_serial, the port opening: is_connected = True and the worker
\* is started; neither buffer is touched
rx_async_open_serial ==
    /\ ~rx_is_connected
    /\ rx_opens < MaxOpens
    /\ rx_is_connected' = TRUE
    /\ rx_opens' = rx_opens + 1
    /\ UNCHANGED <<rxImpl, hex_receive_check, binary_mode_check, rx_json_buffer,
                   rx_binary_buffer, data_received, receive_text, rx_last>>
    /\ UNCHANGED notRxVars

\* close_serial: the worker is stopped, the port closed and
\* reset_connection_state run; neither buffer is touched
rx_close_serial ==
    /\ rx_is_connected
    /\ rx_is_connected' = FALSE
    /\ UNCHANGED <<rxImpl, hex_receive_check, binary_mode_check, rx_json_buffer,
                   rx_binary_buffer, data_received, receive_text, rx_last, rx_opens>>
    /\ UNCHANGED notRxVars

----------------------------------------------------------------------------
(* Kalman parameters of the data monitoring page: update_kalman_params of  *)
(* 03_ModifyCGMPage/01_ReadSerial.py and of 01_Learn/05_ReadSerial_14.py,  *)
(* run by textChanged of the Q and R edits while the Kalman filter is      *)
(* selected (the edits are hidden otherwise).  A float is a fraction       *)
(* [kind |-> "num", num, den] or NaN.                                      *)

KpImpls == {"01_ReadSerial", "05_ReadSerial_14"}
KalmanChannels == {"uric", "ascorbic", "glucose", "voltage"}
FilteredChannels == {"uric", "ascorbic", "glucose"}
MaxSeen == 2           \* samples a Kalman filter has seen since it was made
MaxWarnings == 3       \* message boxes shown

\* what the operator leaves in an edit
KpTexts == {"0.01", "0.1", "0.5", "0", "-1", "abc", "nan"}

Fraction(num, den) == [kind |-> "num", num |-> num, den |-> den]
NaN == [kind |-> "nan", num |-> 0, den |-> 1]
default_Q == Fraction(1, 100)
default_R == Fraction(1, 10)

\* float(text) raises ValueError
FloatRaises(text) == text = "abc"
\* float(text) otherwise
FloatOf(text) ==
    CASE text = "0.01" -> Fraction(1, 100)
      [] text = "0.1" -> Fraction(1, 10)
      [] text = "0.5" -> Fraction(1, 2)
      [] text = "0" -> Fraction(0, 1)
      [] text = "-1" -> Fraction(0 - 1, 1)
      [] OTHER -> NaN
\* str(default_Q), str(default_R)
default_Q_text == "0.01"
default_R_text == "0.1"

\* v <= 0 as Python compares floats: false for NaN
NotAbove0_NanToo(v) == v.kind = "nan" \/ v.num <= 0
NotAbove0(v) == v.kind = "num" /\ v.num <= 0

\* the try block raises or returns early
Rejected(q_text, r_text) ==
    \/ FloatRaises(q_text) \/ FloatRaises(r_text)
    \/ NotAbove0(FloatOf(q_text)) \/ NotAbove0(FloatOf(r_text))

\* _init_kalman_filters: four new filters with the Q and R of the configuration
InitKalmanFilters(q, r) == [k \in KalmanChannels |-> [Q |-> q, R |-> r, seen |-> 0]]

\* message boxes shown by update_kalman_params of 05_ReadSerial_14 on a
\* rejected entry: its own, and that of the call which setText(str(default_Q))
\* runs through textChanged when that changes the text and R is still rejected
Warnings14(q_text, r_text) ==
    IF q_text # default_Q_text /\ Rejected(default_Q_text, r_text) THEN 2 ELSE 1

KpInit ==
    /\ kpImpl \in KpImpls
    /\ kalman_Q_edit = default_Q_text
    /\ kalman_R_edit = default_R_text
    /\ filt_kalman_Q = default_Q
    /\ filt_kalman_R = default_R
    /\ kalman_filters = InitKalmanFilters(default_Q, default_R)
    /\ kp_warnings = 0
    /\ kp_last = [called |-> FALSE, q_text |-> default_Q_text, r_text |-> default_R_text,
                  warnings |-> 0]

KpIdle ==
    /\ kpImpl = "01_ReadSerial"
    /\ kalman_Q_edit = default_Q_text
    /\ kalman_R_edit = default_R_text
    /\ filt_kalman_Q = default_Q
    /\ filt_kalman_R = default_R
    /\ kalman_filters = InitKalmanFilters(default_Q, default_R)
    /\ kp_warnings = 0
    /\ kp_last = [called |-> FALSE, q_text |-> default_Q_text, r_text |-> default_R_text,
                  warnings |-> 0]

\* _process_single_data with the Kalman filter selected: the three analog
\* channels' filters see one more sample
kalman_sample ==
    /\ \E k \in FilteredChannels : kalman_filters[k].seen < MaxSeen
    /\ kalman_filters' =
          [k \in KalmanChannels |->
              IF k \in FilteredChannels /\ kalman_filters[k].seen < MaxSeen
              THEN [kalman_filters[k] EXCEPT !.seen = @ + 1]
              ELSE kalman_filters[k]]
    /\ kp_last' = [kp_last EXCEPT !.called = FALSE]
    /\ UNCHANGED <<kpImpl, kalman_Q_edit, kalman_R_edit, filt_kalman_Q, filt_kalman_R,
                   kp_warnings>>
    /\ UNCHANGED notKpVars

\* the operator leaves other text in one of the two edits: textChanged runs
\* update_kalman_params
update_kalman_params ==
    /\ \E q_text \in KpTexts, r_text \in KpTexts :
          /\ (q_text = kalman_Q_edit) # (r_text = kalman_R_edit)
          /\ kp_last' = [called |-> TRUE, q_text |-> q_text, r_text |-> r_text,
                         warnings |-> kp_warnings]
          /\ IF ~Rejected(q_text, r_text)
             THEN /\ filt_kalman_Q' = FloatOf(q_text)
                  /\ filt_kalman_R' = FloatOf(r_text)
                  /\ kalman_filters' = InitKalmanFilters(FloatOf(q_text), FloatOf(r_text))
                  /\ kalman_Q_edit' = q_text
                  /\ kalman_R_edit' = r_text
                  /\ UNCHANGED kp_warnings
             ELSE IF kpImpl = "01_ReadSerial"
             THEN /\ kalman_Q_edit' = q_text
                  /\ kalman_R_edit' = r_text
                  /\ UNCHANGED <<filt_kalman_Q, filt_kalman_R, kalman_filters, kp_warnings>>
             ELSE /\ kp_warnings' = kp_warnings + Warnings14(q_text, r_text)
                  /\ filt_kalman_Q' = default_Q
                  /\ filt_kalman_R' = default_R
                  /\ kalman_Q_edit' = default_Q_text
                  /\ kalman_R_edit' = default_R_text
                  /\ kalman_filters' = InitKalmanFilters(default_Q, default_R)
    /\ kp_warnings < MaxWarnings
    /\ UNCHANGED kpImpl
    /\ UNCHANGED notKpVars

----------------------------------------------------------------------------
(* DPV potential curve: generate_dpv_potential_curve of                    *)
(* 01_Learn/MyFunction/03_DPV_Generate_2.py, for integer parameters        *)
(* (potentials in mV, times in ms), for which its float arithmetic is      *)
(* exact.                                                                   *)

\* the parameters fed: sweeps up, of one step and down; pulses shorter than,
\* as long as and longer than the period; periods that are and are not a
\* multiple of the sampling time
CurveSweeps ==
    {[e_start |-> 0, e_end |-> 5], [e_start |-> -5, e_end |-> -2],
     [e_start |-> 3, e_end |-> 3], [e_start |-> 6, e_end |-> 0]}
CurveSteps == {1, 2}
CurveAmplitudes == {50}
CurveWidths == {1, 3, 5}
CurvePeriods == {4, 5}
CurveSamplings == {1, 2}
CurveParams ==
    [sweep : CurveSweeps, step_size : CurveSteps, pulse_amplitude : CurveAmplitudes,
     pulse_width : CurveWidths, pulse_period : CurvePeriods,
     sampling_time : CurveSamplings]

\* np.ceil(a / b) for b > 0
CeilDiv(a, b) == 0 - ((0 - a) \div b)
\* num_steps = int(np.ceil((e_end - e_start) / step_size)) + 1
NumSteps(p) == CeilDiv(p.sweep.e_end - p.sweep.e_start, p.step_size) + 1
\* len(np.arange(0, total_time, sampling_time))
ArangeLen(total_time, sampling_time) ==
    IF total_time <= 0 THEN 0 ELSE CeilDiv(total_time, sampling_time)
TimeLen(p) == ArangeLen(NumSteps(p) * p.pulse_period, p.sampling_time)

\* base_potential = e_start + i * step_size
BasePotential_Start(p, i) == p.sweep.e_start
BasePotential(p, i) == p.sweep.e_start + i * p.step_size

\* start_idx and end_idx of step i (indices from 0, end_idx excluded)
StartIdx(p, i) == (i * p.pulse_period) \div p.sampling_time
EndIdx(p, i) == Min(((i + 1) * p.pulse_period) \div p.sampling_time, TimeLen(p))
\* pulse_end_idx = int(start_idx + pulse_width / sampling_time), cut to end_idx
PulseEndIdx(p, i) ==
    Min(StartIdx(p, i) + (p.pulse_width \div p.sampling_time), EndIdx(p, i))

\* the two slice assignments of step i
WithStep(array, p, i) ==
    [k \in 1..Len(array) |->
        IF StartIdx(p, i) <= k - 1 /\ k - 1 < PulseEndIdx(p, i)
        THEN BasePotential(p, i) + p.pulse_amplitude
        ELSE IF PulseEndIdx(p, i) <= k - 1 /\ k - 1 < EndIdx(p, i)
        THEN BasePotential(p, i)
        ELSE array[k]]

CurveInit ==
    /\ curve_params \in CurveParams
    /\ curve_pc = "call"
    /\ curve_i = 0
    /\ potential = <<>>

CurveIdle ==
    /\ curve_params = [sweep |-> [e_start |-> 0, e_end |-> 5], step_size |-> 1,
                       pulse_amplitude |-> 50, pulse_width |-> 1, pulse_period |-> 4,
                       sampling_time |-> 1]
    /\ curve_pc = "call"
    /\ curve_i = 0
    /\ potential = <<>>

\* the call: time = np.arange(...), potential = np.zeros_like(time)
curve_call ==
    /\ curve_pc = "call"
    /\ curve_pc' = "fill"
    /\ potential' = [k \in 1..TimeLen(curve_params) |-> 0]
    /\ UNCHANGED <<curve_params, curve_i>>
    /\ UNCHANGED notCurveVars

\* one pass of "for i in range(num_steps)"
curve_fill_step ==
    /\ curve_pc = "fill"
    /\ curve_i < NumSteps(curve_params)
    /\ potential' = WithStep(potential, curve_params, curve_i)
    /\ curve_i' = curve_i + 1
    /\ UNCHANGED <<curve_params, curve_pc>>
    /\ UNCHANGED notCurveVars

\* after the loop: time and potential are returned
curve_return ==
    /\ curve_pc = "fill"
    /\ curve_i >= NumSteps(curve_params)
    /\ curve_pc' = "returned"
    /\ UNCHANGED <<curve_params, curve_i, potential>>
    /\ UNCHANGED notCurveVars

----------------------------------------------------------------------------
----------------------------------------------------------------------------
(* AppConfig.save_to followed by AppConfig.load, of 01_Learn/config.py and *)
(* of 03_ModifyCGMPage/01_ReadSerial.py, for configurations whose fields   *)
(* hold values of their declared types.  Besides the fields of the        *)
(* configuration group the protocol section is carried: its field names,   *)
(* ProtocolConfig.field_ms (a string) in config.py and                     *)
(* ProtocolConfig.time_keys (a tuple of strings) in 01_ReadSerial.py.      *)

DefaultTimeKeys == <<"t", "time", "sec", "seconds", "timestamp">>
NameString(s) == [t |-> "str", items |-> <<s>>]
NameTuple(items) == [t |-> "tuple", items |-> items]
NoNames == [t |-> "absent", items |-> <<>>]
DefaultNames(impl) ==
    IF impl = "config.py" THEN NameString("Ms") ELSE NameTuple(DefaultTimeKeys)
NamesOf(impl) ==
    IF impl = "config.py" THEN {NameString("Ms"), NameString("t")}
    ELSE {NameTuple(DefaultTimeKeys), NameTuple(<<"ts">>)}

\* the configurations saved: every filter type, two values of each field
TypedConfigs(impl) ==
    [base : [filter_type : FilterTypeNames,
             window_size : {Num(5), Num(7)},
             kalman_Q : {Num(1), Num(5)},
             max_table_rows : {Num(2000), Num(500)},
             save_interval_ms : {Num(1000), Num(250)},
             auto_save : {Flag(FALSE), Flag(TRUE)}],
     names : NamesOf(impl)]

\* json.dumps of asdict(self): a tuple is written as an array, which
\* json.loads reads as a list
JsonOf(names) == IF names.t = "tuple" THEN [names EXCEPT !.t = "list"] ELSE names

\* save_to: the whole dataclass, the filter type as its value
SavedAll(c) == [base |-> Saved(c.base), names |-> JsonOf(c.names)]

\* load: config.py merges every section of the file into the defaults;
\* 01_ReadSerial.py reads time_unit and the four scales of "proto" and leaves
\* the key tuples as AppConfig() made them
LoadAll(impl, doc) ==
    IF impl = "config.py"
    THEN [base |-> LoadConfigPy(doc.base),
          names |-> Patched(doc.names, DefaultNames(impl))]
    ELSE [base |-> LoadReadSerial(DefaultConfig, doc.base),
          names |-> DefaultNames(impl)]

RoundTripInit ==
    /\ rt_impl \in ConfigImpls
    /\ rt_cfg \in TypedConfigs(rt_impl)
    /\ rt_document = [base |-> EmptyDocument("missing"), names |-> NoNames]
    /\ rt_loaded = [base |-> DefaultConfig, names |-> DefaultNames(rt_impl)]
    /\ rt_pc = "made"

RoundTripIdle ==
    /\ rt_impl = "config.py"
    /\ rt_cfg = [base |-> DefaultConfig, names |-> DefaultNames("config.py")]
    /\ rt_document = [base |-> EmptyDocument("missing"), names |-> NoNames]
    /\ rt_loaded = [base |-> DefaultConfig, names |-> DefaultNames("config.py")]
    /\ rt_pc = "made"

\* cfg.save_to()
rt_save_to ==
    /\ rt_pc = "made"
    /\ rt_document' = SavedAll(rt_cfg)
    /\ rt_pc' = "saved"
    /\ UNCHANGED <<rt_impl, rt_cfg, rt_loaded>>
    /\ UNCHANGED notRoundTripVars

\* AppConfig.load() of the file save_to wrote
rt_load ==
    /\ rt_pc = "saved"
    /\ rt_loaded' = LoadAll(rt_impl, rt_document)
    /\ rt_pc' = "loaded"
    /\ UNCHANGED <<rt_impl, rt_cfg, rt_document>>
    /\ UNCHANGED notRoundTripVars

----------------------------------------------------------------------------
----------------------------------------------------------------------------
(* BLE console: BLEController of 02_Use/00_test.py.  scan_devices and      *)
(* toggle_connection are asyncSlot coroutines: a click starts a task, the  *)
(* task runs to its next await, and the event loop runs other clicks and   *)
(* tasks until the awaited call returns.  A disabled button takes no       *)
(* click.                                                                   *)

MaxBleTasks == 2       \* toggle_connection tasks at a time
MaxClients == 2        \* BleakClient objects made
MaxScans == 2          \* scan_devices tasks at a time
MaxDevices == 1        \* devices a scan finds

BleTaskIds == 1..MaxBleTasks
NoTask == [pc |-> "done", client |-> 0]
FreeTask == CHOOSE t \in BleTaskIds : ble_tasks[t] = NoTask /\
                \A u \in BleTaskIds : ble_tasks[u] = NoTask => t <= u

\* self.client and self.client.is_connected
ClientConnected == ble_client # 0 /\ ble_client \in ble_links

BleInit ==
    /\ ble_client = 0
    /\ ble_made = 0
    /\ ble_links = {}
    /\ btn_scan_enabled = TRUE
    /\ btn_connect_enabled = TRUE
    /\ combo_devices_enabled = TRUE
    /\ combo_devices = 0
    /\ current_text = FALSE
    /\ ble_scans = 0
    /\ ble_tasks = [t \in BleTaskIds |-> NoTask]

BleIdle == BleInit

\* scan_devices up to "await BleakScanner.discover(timeout=5.0)"
scan_devices ==
    /\ btn_scan_enabled
    /\ ble_scans < MaxScans
    /\ btn_scan_enabled' = FALSE
    /\ combo_devices' = 0
    /\ current_text' = FALSE
    /\ ble_scans' = ble_scans + 1
    /\ UNCHANGED <<ble_client, ble_made, ble_links, btn_connect_enabled,
                   combo_devices_enabled, ble_tasks>>
    /\ UNCHANGED notBleVars

\* discover returns or raises: the devices found are listed, and the finally
\* block enables the scan button
scan_devices_resumes ==
    /\ ble_scans > 0
    /\ \E found \in 0..MaxDevices :
          combo_devices' = IF combo_devices + found > MaxDevices THEN MaxDevices
                           ELSE combo_devices + found
    /\ btn_scan_enabled' = TRUE
    /\ ble_scans' = ble_scans - 1
    /\ UNCHANGED <<ble_client, ble_made, ble_links, btn_connect_enabled,
                   combo_devices_enabled, current_text, ble_tasks>>
    /\ UNCHANGED notBleVars

\* the operator picks a device in the selector
select_device ==
    /\ combo_devices_enabled
    /\ combo_devices > 0
    /\ ~current_text
    /\ current_text' = TRUE
    /\ UNCHANGED <<ble_client, ble_made, ble_links, btn_scan_enabled,
                   btn_connect_enabled, combo_devices_enabled, combo_devices,
                   ble_scans, ble_tasks>>
    /\ UNCHANGED notBleVars

\* toggle_connection with a connected client, up to
\* "await self.client.disconnect()"
toggle_connection_disconnect ==
    /\ btn_connect_enabled
    /\ ClientConnected
    /\ \E t \in BleTaskIds : ble_tasks[t] = NoTask
    /\ ble_tasks' = [ble_tasks EXCEPT ![FreeTask] =
                        [pc |-> "disconnect", client |-> ble_client]]
    /\ UNCHANGED <<ble_client, ble_made, ble_links, btn_scan_enabled,
                   btn_connect_enabled, combo_devices_enabled, combo_devices,
                   current_text, ble_scans>>
    /\ UNCHANGED notBleVars

\* disconnect() returns: the link is gone, self.client = None, scan button
\* and selector enabled
disconnect_resumes ==
    \E t \in BleTaskIds :
        /\ ble_tasks[t].pc = "disconnect"
        /\ ble_links' = ble_links \ {ble_tasks[t].client}
        /\ ble_client' = 0
        /\ btn_scan_enabled' = TRUE
        /\ combo_devices_enabled' = TRUE
        /\ ble_tasks' = [ble_tasks EXCEPT ![t] = NoTask]
        /\ UNCHANGED <<ble_made, btn_connect_enabled, combo_devices,
                       current_text, ble_scans>>
        /\ UNCHANGED notBleVars

\* toggle_connection without a connected client and with a device selected,
\* up to "await self.client.connect()"; with no device selected it shows a
\* warning and changes nothing
toggle_connection_connect ==
    /\ btn_connect_enabled
    /\ ~ClientConnected
    /\ current_text
    /\ ble_made < MaxClients
    /\ \E t \in BleTaskIds : ble_tasks[t] = NoTask
    /\ btn_connect_enabled' = FALSE
    /\ ble_made' = ble_made + 1
    /\ ble_client' = ble_made + 1
    /\ ble_tasks' = [ble_tasks EXCEPT ![FreeTask] =
                        [pc |-> "connect", client |-> ble_made + 1]]
    /\ UNCHANGED <<ble_links, btn_scan_enabled, combo_devices_enabled,
                   combo_devices, current_text, ble_scans>>
    /\ UNCHANGED notBleVars

\* connect() returns with the link established, returns without it, or
\* raises; then the rest of the try block up to "await start_notify(...)",
\* or the except and finally blocks.  self.client is read again after the
\* await: None there raises AttributeError, which the except block takes
connect_resumes ==
    \E t \in BleTaskIds, outcome \in {"connected", "not connected", "raised"} :
        /\ ble_tasks[t].pc = "connect"
        /\ LET links == IF outcome = "connected"
                        THEN ble_links \cup {ble_tasks[t].client}
                        ELSE ble_links
           IN  /\ ble_links' = links
               /\ IF outcome # "raised" /\ ble_client # 0 /\ ble_client \in links
                  THEN /\ btn_scan_enabled' = FALSE
                       /\ combo_devices_enabled' = FALSE
                       /\ ble_tasks' = [ble_tasks EXCEPT ![t].pc = "start_notify"]
                       /\ UNCHANGED <<ble_client, btn_connect_enabled>>
                  ELSE /\ ble_client' = 0
                       /\ btn_connect_enabled' = TRUE
                       /\ ble_tasks' = [ble_tasks EXCEPT ![t] = NoTask]
                       /\ UNCHANGED <<btn_scan_enabled, combo_devices_enabled>>
        /\ UNCHANGED <<ble_made, combo_devices, current_text, ble_scans>>
        /\ UNCHANGED notBleVars

\* start_notify returns or raises (both are only logged); the finally block
\* enables the connect button
start_notify_resumes ==
    \E t \in BleTaskIds :
        /\ ble_tasks[t].pc = "start_notify"
        /\ btn_connect_enabled' = TRUE
        /\ ble_tasks' = [ble_tasks EXCEPT ![t] = NoTask]
        /\ UNCHANGED <<ble_client, ble_made, ble_links, btn_scan_enabled,
                       combo_devices_enabled, combo_devices, current_text,
                       ble_scans>>
        /\ UNCHANGED notBleVars

----------------------------------------------------------------------------
(* Specifications *)

\* every component but the one a specification is about stays idle
RestIdle == CvIdle /\ ParseIdle /\ DpvIdle /\ RxIdle /\ KpIdle /\ CurveIdle /\ RoundTripIdle /\ BleIdle
CoreIdle ==
    /\ KalmanIdle
    /\ BinIdle /\ JsonIdle /\ IngestIdle /\ PageIdle /\ FilterIdle
    /\ SaveIdle /\ ConfigIdle

SpecCvInit == CoreIdle /\ CvInit /\ ParseIdle /\ DpvIdle /\ RxIdle /\ KpIdle /\ CurveIdle /\ RoundTripIdle /\ BleIdle
SpecCvNext ==
    \/ build_cv_cycles_call
    \/ build_cv_cycles_step
    \/ build_cv_cycles_return
SpecCv == SpecCvInit /\ [][SpecCvNext]_vars

SpecParseInit == CoreIdle /\ CvIdle /\ ParseInit /\ DpvIdle /\ RxIdle /\ KpIdle /\ CurveIdle /\ RoundTripIdle /\ BleIdle
SpecParseNext ==
    \/ binary_frame_parsed
    \/ json_frame_parsed
SpecParse == SpecParseInit /\ [][SpecParseNext]_vars

SpecDpvInit == CoreIdle /\ CvIdle /\ ParseIdle /\ DpvInit /\ RxIdle /\ KpIdle /\ CurveIdle /\ RoundTripIdle /\ BleIdle
SpecDpvNext ==
    \/ dpv_call
    \/ dpv_fill_period
    \/ dpv_return
SpecDpv == SpecDpvInit /\ [][SpecDpvNext]_vars

SpecRxInit == CoreIdle /\ CvIdle /\ ParseIdle /\ DpvIdle /\ RxInit /\ KpIdle /\ CurveIdle /\ RoundTripIdle /\ BleIdle
SpecRxNext ==
    \/ toggle_hex_receive_check
    \/ toggle_binary_mode_check
    \/ handle_data
    \/ rx_async_open_serial
    \/ rx_close_serial
SpecRx == SpecRxInit /\ [][SpecRxNext]_vars

SpecKpInit == CoreIdle /\ CvIdle /\ ParseIdle /\ DpvIdle /\ RxIdle /\ KpInit /\ CurveIdle /\ RoundTripIdle /\ BleIdle
SpecKpNext ==
    \/ kalman_sample
    \/ update_kalman_params
SpecKp == SpecKpInit /\ [][SpecKpNext]_vars

SpecCurveInit == CoreIdle /\ CvIdle /\ ParseIdle /\ DpvIdle /\ RxIdle /\ KpIdle /\ CurveInit /\ RoundTripIdle /\ BleIdle
SpecCurveNext ==
    \/ curve_call
    \/ curve_fill_step
    \/ curve_return
SpecCurve == SpecCurveInit /\ [][SpecCurveNext]_vars

SpecRoundTripInit == CoreIdle /\ CvIdle /\ ParseIdle /\ DpvIdle /\ RxIdle /\ KpIdle /\ CurveIdle /\ RoundTripInit /\ BleIdle
SpecRoundTripNext ==
    \/ rt_save_to
    \/ rt_load
SpecRoundTrip == SpecRoundTripInit /\ [][SpecRoundTripNext]_vars

SpecBleInit == CoreIdle /\ CvIdle /\ ParseIdle /\ DpvIdle /\ RxIdle /\ KpIdle /\ CurveIdle /\ RoundTripIdle /\ BleInit
SpecBleNext ==
    \/ scan_devices
    \/ scan_devices_resumes
    \/ select_device
    \/ toggle_connection_disconnect
    \/ disconnect_resumes
    \/ toggle_connection_connect
    \/ connect_resumes
    \/ start_notify_resumes
SpecBle == SpecBleInit /\ [][SpecBleNext]_vars

\* KalmanIdle comes first in every Init: its binary64 constants are then
\* computed once, not once for each initial state of the other conjuncts
SpecConfigInit ==
    /\ KalmanIdle
    /\ ConfigInit
    /\ BinIdle /\ JsonIdle /\ IngestIdle /\ PageIdle /\ FilterIdle
    /\ SaveIdle /\ RestIdle
SpecConfigNext ==
    \/ config_load
    \/ config_save_to
    \/ on_ui_changed
    \/ reset_to_default
    \/ config_restart
SpecConfig == SpecConfigInit /\ [][SpecConfigNext]_vars

SpecSaveInit ==
    /\ KalmanIdle
    /\ IngestInit /\ timePat = 1 /\ SaveInit
    /\ BinIdle /\ JsonIdle /\ PageIdle /\ FilterIdle /\ ConfigIdle /\ RestIdle
SpecSaveNext ==
    \/ save_update_data
    \/ flush_pending_data
    \/ clear_all_data
    \/ advance_clock
    \/ auto_save_data
    \/ auto_save_data_fails
    \/ manual_save_data
SpecSave == SpecSaveInit /\ [][SpecSaveNext]_vars

SpecKalmanInit ==
    KalmanInit /\ BinIdle /\ JsonIdle /\ IngestIdle /\ PageIdle /\ FilterIdle /\ SaveIdle /\ ConfigIdle /\ RestIdle
SpecKalmanNext ==
    \/ kalman_update
    \/ init_kalman_filters
SpecKalman == SpecKalmanInit /\ [][SpecKalmanNext]_vars

SpecFilterInit == KalmanIdle /\ FilterInit /\ BinIdle /\ JsonIdle /\ IngestIdle /\ PageIdle /\ SaveIdle /\ ConfigIdle /\ RestIdle
SpecFilterNext ==
    \/ apply_filter
    \/ update_filter_config
    \/ filter_apply_config
    \/ filter_clear_all_data
SpecFilter == SpecFilterInit /\ [][SpecFilterNext]_vars

SpecPageInit == KalmanIdle /\ PageInit /\ BinIdle /\ JsonIdle /\ IngestIdle /\ FilterIdle /\ SaveIdle /\ ConfigIdle /\ RestIdle
SpecPageNext ==
    \/ select_port
    \/ auto_connect_toggled
    \/ toggle_connection_open
    \/ toggle_connection_close
    \/ async_open_serial
    \/ start_worker_timeout
    \/ start_worker_abort
    \/ reconnect_timeout
    \/ handle_worker_error
    \/ stop_worker_returns
    \/ worker_start
    \/ worker_poll
    \/ worker_read_done
    \/ worker_read_error
    \/ worker_loop_exit
SpecPage == SpecPageInit /\ [][SpecPageNext]_vars

\* the event loop runs every timer that is due and every queued signal, and
\* the worker threads keep running; the operator and the link owe nothing
FairSpecPage ==
    /\ SpecPage
    /\ WF_vars(async_open_serial)
    /\ WF_vars(start_worker_timeout)
    /\ WF_vars(reconnect_timeout)
    /\ WF_vars(handle_worker_error)
    /\ WF_vars(stop_worker_returns)
    /\ WF_vars(worker_start)
    /\ WF_vars(worker_loop_exit)

SpecIngestInit == KalmanIdle /\ IngestInit /\ BinIdle /\ JsonIdle /\ PageIdle /\ FilterIdle /\ SaveIdle /\ ConfigIdle /\ RestIdle
SpecIngestNext ==
    \/ update_data
    \/ flush_pending_data
    \/ update_max_rows
    \/ switch_chart
    \/ clear_charts
    \/ clear_all_data
SpecIngest == SpecIngestInit /\ [][SpecIngestNext]_vars

SpecJsonInit == KalmanIdle /\ JsonInit /\ BinIdle /\ IngestIdle /\ PageIdle /\ FilterIdle /\ SaveIdle /\ ConfigIdle /\ RestIdle
SpecJsonNext == JsonFeed \/ JsonHandleData
SpecJson == SpecJsonInit /\ [][SpecJsonNext]_vars

SpecBinInit == KalmanIdle /\ BinInit /\ JsonIdle /\ IngestIdle /\ PageIdle /\ FilterIdle /\ SaveIdle /\ ConfigIdle /\ RestIdle
SpecBinNext ==
    \/ BinFeed
    \/ BinDropNonHead
    \/ BinDropBadTail
    \/ BinEmitFrame
    \/ BinDropBadChecksum
    \/ BinReturn
SpecBin == SpecBinInit /\ [][SpecBinNext]_vars
FairSpecBin == SpecBin /\ WF_vars(BinLoopStep)

----------------------------------------------------------------------------
(* Claims about the binary decoder *)

BinDone == binPc = "idle" /\ binRest = <<>>

\* what the frame built from raw must decode to (t is not part of the claim)
ExpectedFields(raw) ==
    [voltage |-> [num |-> raw.code12 * 33, den |-> 40950],
     uric |-> raw.uric, ascorbic |-> raw.ascorbic, glucose |-> raw.glucose]
FieldsOf(d) ==
    [voltage |-> d.voltage, uric |-> d.uric, ascorbic |-> d.ascorbic,
     glucose |-> d.glucose]

\* C1: a well-formed frame (head 0xA5, 12-byte little-endian payload,
\* checksum = sum(payload) mod 256, tail 0x5A) fed to an empty decoder is
\* emitted exactly once, with uric, ascorbic and glucose equal to the raw
\* integers and voltage = code12 / 4095 * 3.3, and all 15 bytes are consumed;
\* nothing is emitted before the frame is complete.
C1_RoundTrip ==
    binCase.kind = "roundtrip" =>
        /\ BinDone =>
              /\ Len(binEmitted) = 1
              /\ FieldsOf(binEmitted[1]) = ExpectedFields(binCase.raw)
              /\ buffer = <<>>
        /\ Len(binRest) + Len(buffer) = FRAME_LEN => binEmitted = <<>>

C1_Witness ==
    /\ binCase.kind = "roundtrip"
    /\ BinDone
    /\ Len(binEmitted) = 1
    /\ binEmitted[1].uric = 42405
    /\ binEmitted[1].voltage.num = 4095 * 33

\* C2: N garbage bytes (0 <= N <= MaxGarbage), none equal to 0xA5, followed
\* by one valid frame, yield exactly that one decoded frame and an empty
\* buffer.
C2_Resync ==
    ( /\ binCase.kind = "resync"
      /\ \A i \in 1..binCase.n : Garbage(binCase.pat, binCase.n)[i] # HEAD
      /\ BinDone )
    => /\ Len(binEmitted) = 1
       /\ FieldsOf(binEmitted[1]) = ExpectedFields(binCase.raw)
       /\ binEmitted[1].t.num = binCase.raw.ms
       /\ buffer = <<>>

C2_Witness ==
    /\ binCase.kind = "resync"
    /\ binCase.n = MaxGarbage
    /\ binCase.pat = 2
    /\ BinDone
    /\ Len(binEmitted) = 1

\* C3: a valid frame with one payload byte changed to another value and the
\* checksum left alone is never emitted: the candidate window is rejected
\* and only its head byte is dropped.
C3_ChecksumReject ==
    binCase.kind = "corrupt" =>
        /\ binEmitted = <<>>
        /\ BinDone => buffer = Tail(BinStream(binCase))

C3_Witness ==
    /\ binCase.kind = "corrupt"
    /\ binCase.pos = 12
    /\ BinDone
    /\ Len(buffer) = FRAME_LEN - 1

\* C4: every iteration of the decode loop either consumes one complete
\* 15-byte frame (emitting it) or removes exactly one byte (emitting
\* nothing), and therefore every feed returns.
C4_ForwardProgress ==
    /\ [][ (binPc = "loop" /\ Len(buffer) >= FRAME_LEN) =>
             \/ /\ buffer' = Drop(buffer, FRAME_LEN)
                /\ Len(binEmitted') = Len(binEmitted) + 1
             \/ /\ buffer' = Tail(buffer)
                /\ binEmitted' = binEmitted ]_vars
    /\ ((binPc = "loop") ~> (binPc = "idle"))

\* a stray head byte was dropped, then the frame behind it was consumed
C4_Witness ==
    /\ binCase.kind = "mixed"
    /\ binCase.segs = <<1, 4>>
    /\ BinDone
    /\ Len(binEmitted) = 1
    /\ buffer = <<>>

----------------------------------------------------------------------------
(* Claims about the JSON decoders *)

JsonDone == jsonRest = <<>>
ObjText(c) == Decode(JsonSegLib[c.segs[1]])

\* C5: a stream of brace-free noise and flat JSON objects, delivered in two
\* feed calls split at any byte position (or in one call), makes the decoder
\* emit exactly the objects of the stream, each once, in stream order.
C5_SplitIndependence ==
    (jsonCase.kind = "flat" /\ JsonDone /\ jsonFeeds <= 2)
    => jsonEmitted = ObjectsOf(jsonCase.segs)

\* What holds of both decoders instead: the same for streams of ASCII
\* characters, whatever the number of chunks.
AsciiSplitIndependence ==
    ( /\ jsonCase.kind = "flat"
      /\ \A i \in 1..Len(jsonCase.segs) : jsonCase.segs[i] # 5
      /\ JsonDone )
    => jsonEmitted = ObjectsOf(jsonCase.segs)

\* C6: a well-formed object (flat or holding a nested object; ASCII, no
\* braces inside strings) that spans two chunks is kept in the buffer from
\* its opening brace after the first chunk and is emitted exactly once,
\* intact, after the second.
C6_Reassembly ==
    (jsonCase.kind = "single" /\ jsonCase.segs[1] \in AsciiFlatSegs \cup NestedSegs)
    => /\ (jsonFeeds = 1 /\ ~JsonDone) =>
             /\ jsonEmitted = <<>>
             /\ json_buffer # <<>>
             /\ json_buffer = Take(ObjText(jsonCase), Len(json_buffer))
       /\ (jsonFeeds = 2 /\ JsonDone) => jsonEmitted = <<ObjText(jsonCase)>>

\* What holds instead: JsonFrameDecoder.feed reassembles these objects over
\* any chunking; SerialPage.process_json_buffer does so for flat objects.
ReassemblyWhereItHolds ==
    ( /\ jsonCase.kind = "single"
      /\ \/ jsonImpl = "JsonFrameDecoder"
            /\ jsonCase.segs[1] \in AsciiFlatSegs \cup NestedSegs
         \/ jsonImpl = "SerialPage" /\ jsonCase.segs[1] \in AsciiFlatSegs
      /\ JsonDone )
    => jsonEmitted = <<ObjText(jsonCase)>>

\* C7: braces inside a quoted string (also after an escaped quote) do not
\* change the brace depth: an object whose string value holds "{" or "}",
\* received in one chunk, is extracted as one span and emitted as one object.
C7_QuoteAware ==
    ( /\ jsonCase.kind = "single"
      /\ jsonCase.segs[1] \in QuotedBraceSegs
      /\ jsonFeeds = 1
      /\ JsonDone )
    => jsonEmitted = <<ObjText(jsonCase)>>

\* What holds instead: the scan of SerialPage.process_json_buffer is quote-
\* and escape-aware.
QuoteAwareInPage ==
    ( /\ jsonImpl = "SerialPage"
      /\ jsonCase.kind = "single"
      /\ jsonCase.segs[1] \in QuotedBraceSegs
      /\ jsonFeeds = 1
      /\ JsonDone )
    => jsonEmitted = <<ObjText(jsonCase)>>

\* C8: after a malformed fragment every well-formed object received
\* afterwards is still decoded and forwarded.  Stated on a delivered stream
\* of one fragment followed by two objects: the first of them has been
\* emitted (first) by the time the second has arrived in full.
C8_NoStall ==
    (jsonCase.kind = "afterbad" /\ Len(jsonCase.segs) = 3 /\ JsonDone)
    => /\ jsonEmitted # <<>>
       /\ jsonEmitted[1] = ObjectsOf(jsonCase.segs)[1]

\* What holds instead: a complete brace-balanced span that fails to parse
\* ({a}) and a stray closing brace are discarded without harm to what
\* follows.
NoStallAfterCompleteSpan ==
    (jsonCase.kind = "afterbad" /\ jsonCase.segs[1] \in {10, 13} /\ JsonDone)
    => jsonEmitted = ObjectsOf(jsonCase.segs)

----------------------------------------------------------------------------
(* Ingestion claims, checked under SpecIngest *)

\* the arrival numbers of a sequence of frames, rows or points
IdsOf(s) == [i \in 1..Len(s) |-> s[i].id]

\* arrival numbers strictly rising along the sequence: nothing reordered,
\* nothing shown twice
InArrivalOrder(s) == \A i \in 1..(Len(s) - 1) : s[i].id < s[i + 1].id

\* everything in s arrived before everything in q
AllBefore(s, q) == \A i \in 1..Len(s) : \A j \in 1..Len(q) : s[i].id < q[j].id

\* C9: for any sequence of update_data calls and flush ticks (and operator
\* actions between them), the pending queue, the table rows, the saved rows,
\* the chart buffers and the points drawn on the charts all hold the frames in
\* the order they were received, and nothing processed arrived after a frame
\* that is still pending.
C9_IngestionOrder ==
    /\ InArrivalOrder(pending_data)
    /\ InArrivalOrder(data_table)
    /\ InArrivalOrder(cached_data)
    /\ InArrivalOrder(glucose_time_data)
    /\ InArrivalOrder(voltage_glucose_data)
    /\ InArrivalOrder(time_glucose_series)
    /\ InArrivalOrder(volt_glucose_series)
    /\ AllBefore(data_table, pending_data)
    /\ AllBefore(cached_data, pending_data)
    /\ AllBefore(glucose_time_data, pending_data)
    /\ AllBefore(voltage_glucose_data, pending_data)
    /\ AllBefore(time_glucose_series, pending_data)
    /\ AllBefore(volt_glucose_series, pending_data)

\* a backlog of more than MAX_PER_TICK frames has been flushed once: fifty
\* rows and chart points are shown and the rest still waits
C9_Witness ==
    /\ Len(data_table) = MAX_PER_TICK
    /\ Len(voltage_glucose_data) = MAX_PER_TICK
    /\ Len(time_glucose_series) > 1
    /\ pending_data # <<>>

----------------------------------------------------------------------------
(* Serial page claims, checked under SpecPage *)

\* the worker threads that exist for port handle h
WorkersOf(h) == {t \in Live : threads[t].port = h}

\* C10: in every reachable state of the serial page, each open port has at most
\* one receive worker thread, whatever the interleaving of open, close, the
\* 500 ms delayed Bluetooth worker start, worker errors and the auto-reconnect
\* timer.
C10_AtMostOneWorker ==
    \A h \in open_ports : Cardinality(WorkersOf(h)) <= 1

\* C11: in no interleaving is a worker inside in_waiting or read on a port
\* handle that has been closed: the worker is stopped and joined before the
\* handle is released.
C11_NoReadAfterClose ==
    \A t \in Live : threads[t].st = "reading" => threads[t].port \in open_ports

\* what close_serial does guarantee: the worker the page still refers to is
\* joined before serial_port.close(), so that one never reads a closed handle
ReferencedWorkerJoinedBeforeClose ==
    worker_thread # 0 /\ threads[worker_thread].st = "reading"
        => threads[worker_thread].port \in open_ports

\* handle_worker_error has run to its end in this step
ErrorHandled ==
    /\ ~crashed'
    /\ blocked' = "no"
    /\ pending_errors' = pending_errors - 1 \/ blocked = "error"

\* C12: once a read exception has been reported and handled, the page is
\* disconnected, no port handle is left open, the page's worker is stopped and
\* joined, and a reconnect is scheduled exactly when auto-reconnect is ticked.
C12_ErrorRecovery ==
    [][ErrorHandled =>
          /\ is_connected' = FALSE
          /\ open_ports' = {}
          /\ worker_thread' = 0
          /\ pending_reconnect' =
                IF auto_connect THEN pending_reconnect + 1 ELSE pending_reconnect
      ]_vars

\* the part of C12 that holds: the page ends disconnected and the reconnect is
\* scheduled exactly when auto-reconnect is ticked
DisconnectedAndRescheduled ==
    [][ErrorHandled =>
          /\ is_connected' = FALSE
          /\ pending_reconnect' =
                IF auto_connect THEN pending_reconnect + 1 ELSE pending_reconnect
      ]_vars

\* an open attempt is on its way: the 3 s timer runs or _async_open_serial is
\* posted
AttemptPending == pending_reconnect > 0 \/ pending_async_open > 0

\* C13: with auto-reconnect ticked, while the page is trying to reconnect
\* (after a worker error, and still after a reconnect attempt whose open
\* failed) another attempt is always eventually made, unless the page
\* connected, was closed by hand, or auto-reconnect was cleared.
C13_RetriesForever ==
    [](status_label = "reconnecting" /\ auto_connect /\ ~crashed
          => <>(AttemptPending \/ status_label # "reconnecting"
                   \/ ~auto_connect \/ crashed))

\* what the code does do: the worker error itself always schedules one attempt
\* when auto-reconnect is ticked
FirstAttemptScheduled ==
    [][ErrorHandled /\ auto_connect => pending_reconnect' = pending_reconnect + 1]_vars

----------------------------------------------------------------------------
(* Filtering claims, checked under SpecFilter *)

\* the arithmetic mean of the most recent Min(k, ws) values of h equals num / den
IsMeanOfRecent(out, h) ==
    LET n == Min(Len(h), out.window)
    IN out.num * n = SumSeq(Last(h, n)) * out.den

RampAverages == <<10, 15, 20, 30, 40>>

\* C14: the k-th output of the moving average since the channel's history was
\* last emptied is the arithmetic mean of the most recent min(k, window_size)
\* raw values; 10, 20, 30, 40, 50 with window_size 3 gives 10, 15, 20, 30, 40.
C14_MovingAverage ==
    last_output.type = "MOVING_AVG" =>
        /\ IsMeanOfRecent(last_output, raw_history)
        /\ \A k \in 1..Len(Ramp) :
              last_output.window = 3 /\ raw_history = Take(Ramp, k)
                  => last_output.num = RampAverages[k] * last_output.den

\* the iteration that empties the history on every change of the setting
\* computes the mean the claim describes
MovingAverageOfCurrentPage == filterImpl = "01_ReadSerial" => C14_MovingAverage

MovingAverageRampFed ==
    /\ last_output.type = "MOVING_AVG" /\ last_output.window = 3
    /\ raw_history = Ramp

MovingAverageHistoryCut ==
    /\ filterImpl = "01_ReadSerial" /\ last_output.type = "MOVING_AVG"
    /\ Len(raw_history) > MaxBuf(window_size)

\* the values the claims speak of: the most recent Min(k, ws) raw values
RecentWindow(h, ws) == Last(h, Min(Len(h), ws))

\* v is the element at index r (from 0) of w in ascending order
RankedAt(w, v, r) ==
    /\ \E i \in 1..Len(w) : w[i] = v
    /\ Cardinality({i \in 1..Len(w) : w[i] < v}) <= r
    /\ r < Cardinality({i \in 1..Len(w) : w[i] <= v})

ZigzagLowerMedians == <<5, 1, 5, 1, 8>>
ZigzagMedians == <<5, 5, 5, 2, 8>>

\* C15 as stated: with window_size 3 the median filter returns the
\* lower-middle element of the sorted most recent window, and 5, 1, 9, 2, 8 fed
\* to a fresh channel gives 5, 1, 5, 1, 8.
C15_MedianLowerMiddle ==
    last_output.type = "MEDIAN" /\ last_output.window = 3 =>
        LET w == RecentWindow(raw_history, 3) IN
        /\ last_output.den = 1
        /\ RankedAt(w, last_output.num, (Len(w) - 1) \div 2)
        /\ \A k \in 1..Len(Zigzag) :
              raw_history = Take(Zigzag, k) => last_output.num = ZigzagLowerMedians[k]

\* C15 amended: with window_size 3 the median filter returns the element at
\* index floor(n / 2) of the sorted most recent window of n = min(k, 3) values
\* (the middle one of three, the larger one of two), always an element of the
\* window, and 5, 1, 9, 2, 8 fed to a fresh channel gives 5, 5, 5, 2, 8.
C15_MedianUpperMiddle ==
    last_output.type = "MEDIAN" /\ last_output.window = 3 =>
        LET w == RecentWindow(raw_history, 3) IN
        /\ last_output.den = 1
        /\ RankedAt(w, last_output.num, Len(w) \div 2)
        /\ \A k \in 1..Len(Zigzag) :
              raw_history = Take(Zigzag, k) => last_output.num = ZigzagMedians[k]

C15_Witness ==
    /\ last_output.type = "MEDIAN" /\ last_output.window = 3
    /\ raw_history = Zigzag

----------------------------------------------------------------------------
(* Kalman filter claims, checked under SpecKalman *)

\* the case the claims speak of: z = 100 with the default Q = 0.01, R = 0.1
DefaultKalmanRun ==
    /\ kalman_z = 100
    /\ kalman_Q = DecimalToDouble(DefaultParams.Qnum, DefaultParams.Qden)
    /\ kalman_R = DecimalToDouble(DefaultParams.Rnum, DefaultParams.Rden)

FPositive(a) == a.m # <<>> /\ a.s = 0

\* C16 as stated: on the constant input 100 the estimate is at 100, P is
\* strictly smaller after every update that follows the first observation,
\* and P is never 0.
C16_KalmanStrictDecrease ==
    DefaultKalmanRun =>
        /\ kalman_updates >= 1 => kalman_x = IntToDouble(100)
        /\ kalman_updates >= 2 => FLess(kalman_P, kalman_prev_P)
        /\ FPositive(kalman_P)

\* the call of update from which P no longer changes: the first observation
\* is call 1, calls 2..60 lower P, call 61 and all later ones return the P
\* they found
StallCall == 61

\* C16 amended: on the constant input 100 the estimate is at 100 from the
\* first observation on; P never increases and is never 0; it is strictly
\* smaller after each of the calls 2..60 and keeps the value it has then
\* (0.027015621187164243, the fixed point of the recursion in binary64).
C16_KalmanNonIncreasing ==
    DefaultKalmanRun =>
        /\ kalman_updates >= 1 => kalman_x = IntToDouble(100)
        /\ kalman_updates >= 2 => ~FLess(kalman_prev_P, kalman_P)
        /\ FPositive(kalman_P)
        /\ kalman_updates >= 2 /\ kalman_updates < StallCall
              => FLess(kalman_P, kalman_prev_P)
        /\ kalman_updates >= StallCall => kalman_P = kalman_prev_P

C16_Witness ==
    /\ DefaultKalmanRun
    /\ kalman_updates > StallCall
    /\ kalman_P = kalman_prev_P

----------------------------------------------------------------------------
(* Table claims, checked under SpecIngest *)

\* C17 as stated: the table holds exactly the most recent
\* min(n, max_table_rows) of the n ingested rows, in ingestion order.
C17_TableHoldsMostRecent ==
    data_table = Last(ingested_rows, Min(Len(ingested_rows), max_table_rows))

RowsAdded == Len(ingested_rows') - Len(ingested_rows)

\* what the table holds after a step that ingests rows or changes the limit
TableStep ==
    ingested_rows' # <<>> =>
        data_table' = Last(ingested_rows',
                           Min(Len(data_table) + RowsAdded, max_table_rows'))

\* trimming leaves the chart buffers and the auto-save cache alone: a change
\* of the limit touches neither, and an ingested batch reaches the cache whole
TrimLeavesBuffers ==
    /\ max_table_rows' # max_table_rows =>
          UNCHANGED <<cached_data, glucose_time_data, voltage_glucose_data>>
    /\ RowsAdded > 0 /\ auto_save =>
          cached_data' = cached_data \o Last(ingested_rows', RowsAdded)
    /\ RowsAdded > 0 =>
          IdsOf(voltage_glucose_data') =
              IdsOf(voltage_glucose_data) \o IdsOf(Last(ingested_rows', RowsAdded))

\* C17 amended: the table always holds the most recent k ingested rows in
\* ingestion order with k <= max_table_rows (oldest evicted first); ingesting
\* rows or changing max_table_rows leaves k = min(rows held before + rows
\* ingested, max_table_rows), so rows evicted under a smaller limit do not
\* come back when the limit is raised; trimming does not alter the chart
\* buffers or the auto-save cache.
C17_TableHoldsRecentSuffix ==
    /\ [](/\ data_table = Last(ingested_rows, Len(data_table))
          /\ Len(data_table) <= max_table_rows)
    /\ [][TableStep /\ TrimLeavesBuffers]_vars

\* rows were evicted under the limit 2, the limit was raised, the table still
\* holds 2 of the 10 rows
C17_Witness ==
    /\ Len(ingested_rows) > Len(data_table)
    /\ Len(data_table) < max_table_rows
    /\ data_table # <<>>

----------------------------------------------------------------------------
(* Saving claims, checked under SpecSave *)

HeaderOnceAndFirst(lines) ==
    lines # <<>> =>
        /\ lines[1] = CsvHeader
        /\ \A i \in 2..Len(lines) : lines[i] # CsvHeader

\* a write to file f: to an empty file it puts the header and then the rows,
\* to any other file the rows alone
AppendsWithHeaderIfEmpty(f) ==
    files'[f] # files[f] =>
        \E data_rows \in {cached_data, data_table} :
            /\ data_rows # <<>>
            /\ files'[f].lines =
                  IF files[f].lines = <<>> THEN <<CsvHeader>> \o data_rows
                  ELSE files[f].lines \o data_rows

\* C18: after any sequence of manual and automatic saves every file written
\* holds the header exactly once, as its first line; the header is written
\* only to a new or empty file, and a further write to the file appends rows
\* and no header.
C18_HeaderOnce ==
    /\ [](\A f \in FileNames : HeaderOnceAndFirst(files[f].lines))
    /\ [][\A f \in FileNames : AppendsWithHeaderIfEmpty(f)]_vars

\* one file took a manual and an automatic save, or two of a kind
C18_Witness ==
    \E f \in FileNames : files[f].opened >= 2 /\ Len(files[f].lines) >= 3

\* the rows auto_save_data wrote since the last clear_all_data
SavedSinceClear ==
    LET Current(r) == \E i \in 1..Len(ingested_rows) : ingested_rows[i] = r
    IN SelectSeq(saved_rows, Current)

\* a tick that wrote: the target file got the cache appended, the cache is empty
TickWritesCache ==
    saved_rows' # saved_rows =>
        /\ cached_data' = <<>>
        /\ files'[get_save_filename].lines =
              files[get_save_filename].lines
                  \o (IF files[get_save_filename].lines = <<>>
                      THEN <<CsvHeader>> ELSE <<>>)
                  \o cached_data
        /\ \A f \in FileNames \ {get_save_filename} : files'[f] = files[f]

\* a write that failed: cache and files are as before
FailureKeepsCache ==
    failed_writes' # failed_writes => UNCHANGED <<cached_data, files, saved_rows>>

----------------------------------------------------------------------------
(* Configuration claims, checked under SpecConfig *)

\* strings that are neither a value nor a name of FilterType; to config.py
\* the names are unrecognised as well
UnrecognisedStrings == {"bogus", "", "median"}
Unrecognised(field) ==
    /\ field.t = "str"
    /\ \/ field.s \in UnrecognisedStrings
       \/ configImpl = "config.py" /\ field.s \in FilterTypeNames

\* the field of cfg is what the document says, or the default without it
TakesDocumentValue(value, field, default) ==
    value = IF field.t = "absent" THEN default ELSE field

\* load has run on the document: it has returned or raised
LoadAttempted == config_loaded \/ config_raised
WellFormed(field) == field.t = "num"

\* C20: a document whose filt section has an unrecognised filter_type string
\* and a well-formed window_size loads with filter_type at its default while
\* window_size and the other well-formed fields take the document's values.
C20_TolerantMerge ==
    /\ LoadAttempted
    /\ document.kind = "object" /\ document.filt_is_dict
    /\ Unrecognised(document.filter_type)
    /\ WellFormed(document.window_size)
    => /\ config_loaded
       /\ cfg.filter_type = DefaultConfig.filter_type
       /\ cfg.window_size = document.window_size
       /\ TakesDocumentValue(cfg.kalman_Q, document.kalman_Q, DefaultConfig.kalman_Q)
       /\ WellFormed(document.max_table_rows) =>
              cfg.max_table_rows = document.max_table_rows

\* whenever load returns a configuration, the merge is as C20 says (holds)
TolerantMergeWhenLoadReturns == C20_TolerantMerge \/ config_raised

\* C21: loading never fails: whatever the file holds (nothing, text that is
\* no JSON, JSON that is no object, fields of the wrong type), load returns a
\* configuration and raises no error.
C21_LoadNeverFails == ~config_raised

\* C22: in config.py a section whose patch has a wrongly typed value (here
\* filt with a string for window_size) is abandoned for that section's
\* defaults, while the other sections take their values from the document.
C22_SectionIsolation ==
    /\ config_loaded
    /\ configImpl = "config.py"
    /\ document.kind = "object" /\ document.filt_is_dict
    /\ document.window_size.t = "str"
    => /\ cfg.filter_type = DefaultConfig.filter_type
       /\ cfg.window_size = DefaultConfig.window_size
       /\ cfg.kalman_Q = DefaultConfig.kalman_Q
       /\ TakesDocumentValue(cfg.max_table_rows, document.max_table_rows,
                             DefaultConfig.max_table_rows)

\* C30: in 01_ReadSerial.py the save interval in use, the configuration value
\* and the period of the running auto-save timer, is at least 100 ms, whether
\* it came from the settings page or from the configuration file.
C30_SaveIntervalClamped ==
    /\ config_loaded
    /\ configImpl = "01_ReadSerial"
    => /\ cfg.save_interval_ms.n >= MinInterval
       /\ timer_interval # 0 => timer_interval >= MinInterval

----------------------------------------------------------------------------
(* CV-cycle claims, checked under SpecCv *)

\* the voltages of the claim: 0.0 to 1.0 V in 0.1 V steps and back to 0.0
ClaimSweep == [top |-> 10, step |-> 100]
IsClaimSweep(data) ==
    /\ Len(data) = 2 * ClaimSweep.top + 1
    /\ \A k \in 1..Len(data) :
          data[k].v = SweepVoltage(ClaimSweep.top, ClaimSweep.step, k)
Rising(cycle) == \A j \in 1..(Len(cycle) - 1) : cycle[j].v < cycle[j + 1].v
Falling(cycle) == \A j \in 1..(Len(cycle) - 1) : cycle[j].v > cycle[j + 1].v
PointsOf(cycle) == {cycle[j].k : j \in 1..Len(cycle)}
Turn == ClaimSweep.top + 1      \* the index of the point at 1.0 V

\* C23: the sweep 0.0 .. 1.0 .. 0.0 V in 0.1 V steps, whatever the glucose
\* values, is cut into exactly two cycles, the first rising and the second
\* falling, each of at least 10 points, sharing only the point of the turn.
C23_CvTwoCycles ==
    cv_pc = "returned" /\ IsClaimSweep(cv_data)
    => /\ Len(cycles) = 2
       /\ Rising(cycles[1]) /\ Falling(cycles[2])
       /\ Len(cycles[1]) >= 10 /\ Len(cycles[2]) >= 10
       /\ PointsOf(cycles[1]) \cap PointsOf(cycles[2]) = {Turn}
       /\ PointsOf(cycles[1]) \cup PointsOf(cycles[2]) = 1..Len(cv_data)

C23_Witness ==
    /\ cv_pc = "returned" /\ IsClaimSweep(cv_data)
    /\ \E k \in 1..Len(cv_data) : cv_data[k].g # cv_data[1].g
    /\ Len(cycles) = 2

----------------------------------------------------------------------------
(* Parsing claims, checked under SpecParse *)

\* C24: within one session (device timestamps never decreasing) the seconds
\* of each engineering sample are not before those of the sample before it.
C24_SecondsNeverDecrease ==
    samples >= 2 => NotAfter(prev_parsed.t, parsed.t)

\* what parse_frame makes of the same values under the first alias of each
\* list
ParsedUnderFirstAlias == ParseFrame(Named("first_alias", frame_values))

\* C25: a frame parses to the same values whether the device names its
\* fields canonically (Ms, Uric, Ascorbic, Glucose, Code12) or by aliases, and
\* absent or non-numeric values parse to 0.
C25_AliasResolution ==
    proto_mode = "json" /\ samples >= 1
    => /\ parsed = ParsedUnderFirstAlias
       /\ frame_values.uric \in {Absent, Str("abc")} => parsed.uric = Num(0)

\* aliases of the lists are interchangeable, and absent or non-numeric
\* values parse to 0 (holds)
AliasesInterchangeable ==
    proto_mode = "json" /\ samples >= 1 /\ field_naming # "canonical"
    => /\ parsed = ParsedUnderFirstAlias
       /\ frame_values.uric \in {Absent, Str("abc")} => parsed.uric = Num(0)

----------------------------------------------------------------------------
(* DPV claims, checked under SpecDpv *)

DpvTotalSteps ==
    TotalSteps(dpv_params.sweep.start, dpv_params.sweep.end, dpv_params.step_voltage)
DpvSamplesPerPeriod == SamplesOf(dpv_params.pulse_period, dpv_params.sample_rate)
DpvPulseSamples == SamplesOf(dpv_params.pulse_width, dpv_params.sample_rate)
\* the sample of voltage_array at a position (from 1) of the period of a step
SampleAt(step, position) == voltage_array[step * DpvSamplesPerPeriod + position]
\* the base voltage of a period as the claim has it: the start moved by the
\* period's number of steps toward the end
StepsTowardEnd(step) ==
    IF dpv_params.sweep.start <= dpv_params.sweep.end
    THEN dpv_params.sweep.start + step * dpv_params.step_voltage
    ELSE dpv_params.sweep.start - step * dpv_params.step_voltage
\* the final count positions of a period
FinalPositions(count) == {DpvSamplesPerPeriod - k : k \in 0..(count - 1)}
\* the table has total_steps periods, in each the given positions hold the
\* base voltage plus the amplitude and no other does, the others the base
DpvTablePulsedAt(positions) ==
    /\ Len(voltage_array) = DpvTotalSteps * DpvSamplesPerPeriod
    /\ \A step \in 0..(DpvTotalSteps - 1) :
          /\ {position \in 1..DpvSamplesPerPeriod :
                 SampleAt(step, position)
                    = StepsTowardEnd(step) + dpv_params.pulse_amplitude} = positions
          /\ \A position \in (1..DpvSamplesPerPeriod) \ positions :
                SampleAt(step, position) = StepsTowardEnd(step)
\* the example of the claim: 401 steps of 1000 samples
DpvExample == TotalSteps(0, 800, 2) = 401 /\ SamplesOf(1000, 1000) = 1000

\* C26 as stated: for every choice of positive parameters the table has
\* total_steps * samples_per_period entries, the final pulse_samples samples of
\* each period are its base voltage plus the amplitude and all others its
\* base voltage exactly.
C26_DpvTableAnyParameters ==
    dpv_pc = "returned"
    => DpvTablePulsedAt(FinalPositions(DpvPulseSamples)) /\ DpvExample

\* every voltage of the sweep, with and without the amplitude, is below
\* 2^24, so that float32 holds it
Float32Exact ==
    /\ dpv_params.sweep.start + dpv_params.pulse_amplitude < Float32Limit
    /\ dpv_params.sweep.end + dpv_params.pulse_amplitude < Float32Limit

\* C26 amended: for integer parameters whose voltages float32 holds exactly,
\* the table has total_steps * samples_per_period entries, the final
\* min(pulse_samples, samples_per_period) samples of each period are its base
\* voltage plus the amplitude and all others its base voltage.
C26_DpvTable ==
    dpv_pc = "returned" /\ Float32Exact
    => /\ DpvTablePulsedAt(FinalPositions(Min(DpvPulseSamples, DpvSamplesPerPeriod)))
       /\ DpvExample

C26_Witness ==
    /\ dpv_pc = "returned" /\ Float32Exact
    /\ dpv_params.sweep.start > dpv_params.sweep.end
    /\ DpvPulseSamples >= 1 /\ DpvPulseSamples < DpvSamplesPerPeriod
    /\ Len(voltage_array) >= 8
    /\ voltage_array[Len(voltage_array)] = dpv_params.sweep.end + dpv_params.pulse_amplitude

----------------------------------------------------------------------------
(* Receive-path claims, checked under SpecRx *)

\* the last chunk was the whole object {"b":2}, received on the JSON path
\* with nothing buffered
ObjectReceivedOnJsonPath ==
    /\ rx_last.data = RxObject
    /\ ~rx_last.binary
    /\ rx_last.json_buffer = <<>>
ObjectForwarded ==
    data_received = Append(rx_last.data_received, <<LB, QT, "b", QT, ":", "2", RB>>)

\* C27: every chunk is handed to the decoder of the active protocol mode
\* whatever the display options are: a well-formed JSON object received
\* while the binary protocol is off is decoded and forwarded, with hex
\* display ticked or not, and a chunk received while it is on goes through
\* the binary decoder.
C27_DecodedWhateverDisplay ==
    /\ ObjectReceivedOnJsonPath => ObjectForwarded
    /\ rx_last.data # <<>> /\ rx_last.binary
       => LET bin == process_binary_buffer(rx_last.binary_buffer \o rx_last.data,
                                           rx_last.data_received)
          IN  rx_binary_buffer = bin.buf /\ data_received = bin.out

\* the same with hex display not ticked
DecodedWhenShownAsText ==
    ObjectReceivedOnJsonPath /\ ~rx_last.hex => ObjectForwarded

----------------------------------------------------------------------------
(* Filter reconfiguration claims, checked under SpecFilter *)

\* every value of the rolling history was received under the filter type and
\* window size now set (last_output records the setting of the latest sample
\* since the history was emptied)
HistorySinceLastChange ==
    filter_buffer # <<>>
    => last_output.type = filter_type /\ last_output.window = window_size

\* C28: a change of filter_type or of window_size empties the rolling
\* history, so that the history never holds a sample received before the
\* latest change and the first output after a change depends on later
\* samples only.
C28_ChangeClearsFilterState == HistorySinceLastChange

\* the iteration that empties the history on every change
ChangeClearsOnCurrentPage == filterImpl = "01_ReadSerial" => HistorySinceLastChange

----------------------------------------------------------------------------
(* Kalman parameter claims, checked under SpecKp *)

\* the text is a strictly positive number
StrictlyPositive(text) ==
    ~FloatRaises(text) /\ FloatOf(text).kind = "num" /\ FloatOf(text).num > 0
AllFour(q, r) ==
    \A k \in KalmanChannels : kalman_filters[k] = [Q |-> q, R |-> r, seen |-> 0]

\* C29: after update_kalman_params, Q and R are the entries when both are
\* strictly positive numbers, and otherwise both are the defaults 0.01 and 0.1
\* and a warning was shown; either way all four channel filters are new ones
\* with the Q and R in force.
C29_KalmanParamsValidated ==
    kp_last.called =>
        IF StrictlyPositive(kp_last.q_text) /\ StrictlyPositive(kp_last.r_text)
        THEN /\ filt_kalman_Q = FloatOf(kp_last.q_text)
             /\ filt_kalman_R = FloatOf(kp_last.r_text)
             /\ AllFour(filt_kalman_Q, filt_kalman_R)
        ELSE /\ filt_kalman_Q = default_Q
             /\ filt_kalman_R = default_R
             /\ kp_warnings > kp_last.warnings
             /\ AllFour(default_Q, default_R)

\* what holds of both iterations: entries that are strictly positive numbers
\* are taken and all four filters made anew
PositiveEntriesAccepted ==
    kp_last.called /\ StrictlyPositive(kp_last.q_text) /\ StrictlyPositive(kp_last.r_text)
    => /\ filt_kalman_Q = FloatOf(kp_last.q_text)
       /\ filt_kalman_R = FloatOf(kp_last.r_text)
       /\ AllFour(filt_kalman_Q, filt_kalman_R)

\* the older iteration but for NaN: rejected entries give the defaults and a
\* warning
RevertsIn14ButForNan ==
    kpImpl = "05_ReadSerial_14" /\ kp_last.q_text # "nan" /\ kp_last.r_text # "nan"
    => C29_KalmanParamsValidated

----------------------------------------------------------------------------
(* DPV potential curve claims, checked under SpecCurve *)

\* the samples of the period window of step i, as positions from 1
WindowOf(i) ==
    {k \in 1..Len(potential) :
        /\ (i * curve_params.pulse_period) \div curve_params.sampling_time <= k - 1
        /\ k - 1 < ((i + 1) * curve_params.pulse_period) \div curve_params.sampling_time}
\* the samples that pulse_width covers, no more than the window holds
PulseLen(i) ==
    Min(curve_params.pulse_width \div curve_params.sampling_time, Cardinality(WindowOf(i)))
FirstOf(S, n) == {k \in S : Cardinality({j \in S : j < k}) < n}
LastOf(S, n) == {k \in S : Cardinality({j \in S : j > k}) < n}
\* the base potential of step i as the claim has it
BaseOfStep(i) == curve_params.sweep.e_start + i * curve_params.step_size
\* in every window the given samples hold base + amplitude, the others base
CurvePulsedAt(pulsed(_)) ==
    \A i \in 0..(NumSteps(curve_params) - 1) :
        \A k \in WindowOf(i) :
            potential[k] = IF k \in pulsed(i)
                           THEN BaseOfStep(i) + curve_params.pulse_amplitude
                           ELSE BaseOfStep(i)
TailOfWindow(i) == LastOf(WindowOf(i), PulseLen(i))
HeadOfWindow(i) == FirstOf(WindowOf(i), PulseLen(i))

----------------------------------------------------------------------------
(* Chunking of the binary decoder, checked under SpecBin *)

\* one feed call with all of buf: the buffer left and the frames emitted
RECURSIVE FedWhole(_, _, _)
FedWhole(impl, buf, out) ==
    IF ~LoopCond(buf) THEN [buffer |-> buf, emitted |-> out]
    ELSE IF buf[1] = HEAD /\ buf[FRAME_LEN] = TAIL /\ ChecksumOk(Take(buf, FRAME_LEN))
    THEN FedWhole(impl, ConsumeFrame(buf),
                  Append(out, DecodedData(impl, SubSeq(buf, 2, 13))))
    ELSE FedWhole(impl, Tail(buf), out)

\* the bytes fed so far
BinFed == Take(BinStream(binCase), Len(BinStream(binCase)) - Len(binRest))

\* C32: whenever a feed call has returned, the frames emitted so far and the
\* bytes left in the buffer are those of one feed call with all the bytes fed
\* so far, however they were cut into chunks, and fewer than 15 bytes are
\* left.
C32_ChunkingIndependence ==
    binPc = "idle" /\ binCase.chunked =>
        /\ buffer = FedWhole(binImpl, BinFed, <<>>).buffer
        /\ binEmitted = FedWhole(binImpl, BinFed, <<>>).emitted
        /\ Len(buffer) < FRAME_LEN

\* 17 bytes of two frames, fed in no fewer than two calls (chunks are of 1, 2
\* or 15 bytes or all 30): one frame emitted, two bytes of the next buffered
C32_Witness ==
    /\ binPc = "idle"
    /\ binCase.kind = "mixed" /\ binCase.segs = <<4, 5>>
    /\ Len(BinFed) = 17
    /\ Len(binEmitted) = 1
    /\ Len(buffer) = 2

----------------------------------------------------------------------------
(* False synchronisation of the binary decoder, checked under SpecBin *)

\* the segments that are valid frames, and what they were packed from
FrameSegs == {4, 5, 9}
RawOfSeg(seg) == IF seg = 4 THEN Raw1 ELSE IF seg = 5 THEN Raw2 ELSE Raw3
\* the stream ends with a valid frame behind other bytes
EndsWithFrame ==
    /\ binCase.kind = "mixed"
    /\ Len(binCase.segs) = 2
    /\ binCase.segs[2] \in FrameSegs

\* C33: a valid frame preceded by any bytes (stray head and tail bytes, a
\* frame with a bad tail or checksum, line noise) is emitted once all its
\* bytes have arrived: it is the last frame emitted when the stream is
\* consumed.
C33_ValidFrameNotLost ==
    EndsWithFrame /\ BinDone =>
        /\ binEmitted # <<>>
        /\ FieldsOf(binEmitted[Len(binEmitted)]) = ExpectedFields(RawOfSeg(binCase.segs[2]))

\* the same when the bytes before the frame form no window that passes the
\* head, tail and checksum tests together with bytes of the frame
NotLostWithoutFalseWindow ==
    binCase.kind = "mixed" /\ binCase.segs # <<8, 9>> => C33_ValidFrameNotLost

----------------------------------------------------------------------------
(* Connection state of the serial page, checked under SpecPage *)

\* C34: whenever is_connected is true the page refers to a port handle and
\* that handle is open, also when an open attempt runs while the page is
\* connected already.
C34_ConnectedHoldsOpenPort ==
    is_connected => serial_port # 0 /\ serial_port \in open_ports

----------------------------------------------------------------------------
(* Worker life time of the serial page, checked under SpecPage *)

\* C35: a receive worker runs only while the page is connected: once
\* close_serial has completed (or before any connection) no worker thread
\* is alive, and the worker start that a Bluetooth open scheduled 500 ms
\* ahead starts none after the connection was closed.
C35_NoWorkerWithoutConnection ==
    ~is_connected /\ blocked = "no" => Live = {}

----------------------------------------------------------------------------
(* Settings page and filter state, checked under SpecFilter *)

\* C37: a change on the settings page (auto-save, save interval, save
\* path), which reaches the monitoring page as apply_config, leaves the
\* filter history of every channel as it was.
C37_SettingsChangeKeepsFilterState ==
    [][filter_apply_config => UNCHANGED <<filter_buffer, last_output>>]_vars

----------------------------------------------------------------------------
(* Direction of the returned CV cycles, checked under SpecCv *)

DeltaOf(cycle, j) == cycle[j + 1].v - cycle[j].v
Decisive(cycle, j) == Abs(DeltaOf(cycle, j)) >= dv_threshold
OneDirection(cycle) ==
    \A i, j \in 1..(Len(cycle) - 1) :
        Decisive(cycle, i) /\ Decisive(cycle, j)
        => (DeltaOf(cycle, i) > 0) = (DeltaOf(cycle, j) > 0)
SliceOfBuffer(cycle) ==
    /\ \A j \in 1..Len(cycle) : cv_data[cycle[j].k] = cycle[j]
    /\ \A j \in 1..(Len(cycle) - 1) : cycle[j + 1].k = cycle[j].k + 1

\* C38: every cycle _build_cv_cycles returns is a run of consecutive buffer
\* points whose voltage steps of at least dv_threshold all go the same way,
\* it has at least min_points points, and the cycles follow each other in
\* buffer order (each starts where the one before ended, or later).
C38_CyclesOneDirection ==
    cv_pc = "returned"
    => /\ \A c \in 1..Len(cycles) :
             /\ OneDirection(cycles[c])
             /\ Len(cycles[c]) >= min_points
             /\ SliceOfBuffer(cycles[c])
       /\ \A c \in 1..(Len(cycles) - 1) :
             cycles[c + 1][1].k >= cycles[c][Len(cycles[c])].k

\* two cycles returned, the first with a jitter against its direction, and a
\* short run between them dropped
C38_Witness ==
    /\ cv_pc = "returned"
    /\ Len(cycles) = 2
    /\ \E j \in 1..(Len(cycles[1]) - 1) :
          ~Decisive(cycles[1], j) /\ DeltaOf(cycles[1], j) < 0
    /\ \E j \in 1..(Len(cycles[1]) - 1) : DeltaOf(cycles[1], j) >= dv_threshold
    /\ \E k \in 1..Len(cv_data) :
          \A c \in 1..Len(cycles) : k \notin PointsOf(cycles[c])

----------------------------------------------------------------------------
(* Decode buffers across sessions and protocol modes, checked under SpecRx *)

\* C36: whenever a port is opened, for the first time or again, or the
\* binary / JSON protocol is switched, both accumulation buffers are empty
\* afterwards, so that no frame is put together from bytes of two sessions
\* or two protocol modes.
C36_BuffersEmptyOnOpenAndSwitch ==
    [][rx_async_open_serial \/ toggle_binary_mode_check
       => rx_json_buffer' = <<>> /\ rx_binary_buffer' = <<>>]_vars

\* what follows: an object forwarded in the second session that the first
\* session began
ObjectAcrossSessions ==
    /\ rx_opens = 2
    /\ rx_last.data = Drop(RxObject, 4)
    /\ rx_last.json_buffer = DecodeBytes(rxImpl, Take(RxObject, 4))
    /\ Len(receive_text) = 2
    /\ Len(data_received) = 1


----------------------------------------------------------------------------
(* Configuration round trip, checked under SpecRoundTrip *)

\* C39: save_to followed by load returns a configuration equal to the one
\* saved, for every filter type and every value of the fields.
C39_ConfigRoundTrip ==
    rt_pc = "loaded" => rt_loaded = rt_cfg

\* the same for config.py, and for 01_ReadSerial.py while the key tuples of
\* the protocol section are the defaults
RoundTripButForKeyTuples ==
    /\ rt_pc = "loaded"
    /\ rt_impl = "config.py" \/ rt_cfg.names = DefaultNames(rt_impl)
    => rt_loaded = rt_cfg


----------------------------------------------------------------------------
(* BLE console coherence, checked under SpecBle *)

\* C40: whenever a BLE connection is established, self.client is the
\* connected client and the scan button and the device selector are
\* disabled, whatever the order of clicks and of awaited calls returning.
C40_ConnectedStateCoherent ==
    \A c \in ble_links :
        /\ ble_client = c
        /\ ~btn_scan_enabled
        /\ ~combo_devices_enabled
====
